---- MODULE Spec2Model ----
(***************************************************************************)
(* Model of the scoring stage of hackathon-reviewer                         *)
(* (src/hackathon_reviewer/stages/scoring.py), of the records it reads, and *)
(* of the two LLM stages that produce them (stages/code_review.py,          *)
(* stages/video_analysis.py) with their resume files.                       *)
(*                                                                          *)
(* Numbers.  Python floats are modelled as fixed-point integers:            *)
(*   - a heuristic's raw value is counted in 1/10000  (7.25  -> 72500);     *)
(*   - a stored CriterionScore.score in hundredths    (7.3   -> 730);       *)
(*   - a weight in thousandths                        (0.25  -> 250);       *)
(*   - a weighted_total in hundredths                 (6.45  -> 645).       *)
(* round(x, n) yields the set of results the float arithmetic can give.     *)
(* An optional value (X | None) is a sequence of length 0 or 1.             *)
(* A str holding user text (a team or project name) is the sequence of its  *)
(* code points; the fixed ASCII literals of the code are TLA+ strings.      *)
(***************************************************************************)
EXTENDS Integers, Sequences, FiniteSets

VARIABLES
    cfg,            \* ReviewConfig: [scoring: option of the criteria mapping]
    submissions,    \* list[Submission], in parse order
    repo_metadata,  \* list[RepoMetadata]
    static_results, \* list[StaticAnalysisResult]
    code_reviews,   \* list[CodeReviewResult]
    video_results,  \* list[VideoAnalysisResult]
    pc,             \* position of run_scoring: "start", "loop", "done"
    scores,         \* the local list `scores` of run_scoring
    returned,       \* option: the list run_scoring returned
    scores_json,    \* option: the content of data/scores.json
    writes,         \* how often this call has written data/scores.json
    rounded,        \* the results round() has given so far
    previous,       \* option: the arguments and result of the call before
    loaded,         \* option: what the last call of load_scores gave
    log_calls,      \* the calls of _log_scale made so far, with their results
    stage,          \* the LLM stage that runs: "code_review", "video_analysis"
    resume,         \* the resume argument of the stage
    out_file,       \* option: code_reviews.json / video_analysis.json on disk
    saved,          \* the results the run before had when it wrote out_file
    lpc,            \* position of the stage: "start", "pool", "done", "failed"
    existing,       \* the local dict `existing`: team number -> result
    results_map,    \* the local dict `results_map`: team number -> result
    work,           \* the local list `work`
    pending,        \* team numbers whose future as_completed has not yielded
    completed,      \* the local counter `completed`
    sent,           \* team numbers _do_one has run for in this call
    results,        \* option: the list the stage returned
    saves           \* how often this call has written out_file

\* the variables of the LLM stages
stage_vars == <<stage, resume, out_file, saved, lpc, existing, results_map,
                work, pending, completed, sent, results, saves>>

vars == <<cfg, submissions, repo_metadata, static_results, code_reviews,
          video_results, pc, scores, returned, scores_json, writes, rounded,
          previous, loaded, log_calls, stage_vars>>

inputs == <<cfg, submissions, repo_metadata, static_results, code_reviews,
            video_results>>

----------------------------------------------------------------------------
(* Generic helpers *)

None == <<>>

Some(x) == <<x>>

Min(a, b) == IF a <= b THEN a ELSE b

Max(a, b) == IF a >= b THEN a ELSE b

\* round(x, places) of a fixed-point value x, as a count of units of `unit`
\* (unit 1000 of a value in 1/10000: tenths).  Python rounds the binary float, not the decimal value: away
\* from an exact decimal tie the result is the nearest unit; at a tie
\* (2.15, 0.125) the float's representation error decides, so either
\* neighbour can be the result.
RoundTo(unit, x) ==
    LET q == x \div unit
        r == x % unit
    IN  IF 2 * r < unit THEN {q}
        ELSE IF 2 * r > unit THEN {q + 1}
        ELSE {q, q + 1}

\* round(x, 1) of a value counted in 1/10000: the possible results, in
\* hundredths
Round1(x) == {10 * q : q \in RoundTo(1000, x)}

\* round(x, 2) of a value counted in 1/100000 (a score times a weight): the
\* possible results, in hundredths
Round2(x) == RoundTo(1000, x)

----------------------------------------------------------------------------
(* models.py: enums and default-constructed records *)

HackathonPeriodFlag ==
    {"clean", "minor_prior_work", "significant_prior_work",
     "pre_existing_project", "unknown"}

RepoFiles ==
    [file_count |-> 0, total_loc |-> 0, languages |-> {},
     has_readme |-> FALSE, has_tests |-> FALSE]

GitHistory ==
    [total_commits |-> 0, commits_during_hackathon |-> 0,
     hackathon_period_flag |-> "unknown", is_single_commit_dump |-> FALSE]

RepoMetadata(team_number) ==
    [team_number |-> team_number, files |-> RepoFiles, git_history |-> GitHistory]

RepoStructure ==
    [has_docker |-> FALSE, has_ci |-> FALSE, has_env_example |-> FALSE,
     has_claude_md |-> FALSE, frameworks_detected |-> {}]

StaticAnalysisResult(team_number) ==
    [team_number |-> team_number, integration_patterns |-> {},
     integration_score |-> 0, is_boilerplate_heavy |-> FALSE,
     structure |-> RepoStructure]

\* CriterionScore(score=..., source=...): rationale keeps its default ""
CriterionScore(score, source) ==
    [score |-> score, rationale |-> "", source |-> source]

ProjectScore(team_number, team_name, project_name) ==
    [team_number |-> team_number, team_name |-> team_name,
     project_name |-> project_name, scores |-> <<>>, weighted_total |-> 0,
     score_source |-> "automated"]

----------------------------------------------------------------------------
(* scoring.py: _log_scale *)

\* 1 / (1 + exp(-1.2 * (log(value + 1) - log(5001)))) in 1/10000, for the
\* values of total_loc the model uses (the curve is not rational for
\* steepness 1.2, so it is tabulated from the formula)
LogScaleSteep(value) ==
    CASE value = 200 -> 207
      [] value = 5000 -> 5000
      [] value = 20000 -> 8407

\* scale * _log_scale(value, midpoint, 1.0), rounded down.  With steepness 1
\* the logistic of a difference of logarithms is the ratio
\* (value + 1) / (value + midpoint + 2).
LogScaleTimes(scale, value, midpoint) ==
    IF value <= 0 THEN 0
    ELSE (scale * (value + 1)) \div (value + midpoint + 2)

\* _log_scale on log(value) - log(midpoint), without the shift by one
LogScaleWithoutShift(value, midpoint, steepness) ==
    IF value <= 0 THEN 0
    ELSE IF steepness = 10 THEN (10000 * value) \div (value + midpoint)
    ELSE LogScaleSteep(value)

\* _log_scale(value, midpoint, steepness) in 1/10000, rounded down;
\* steepness is counted in tenths (1.0 -> 10, 1.2 -> 12)
_log_scale(value, midpoint, steepness) ==
    IF value <= 0 THEN 0
    ELSE IF steepness = 10 THEN LogScaleTimes(10000, value, midpoint)
    ELSE LogScaleSteep(value)

----------------------------------------------------------------------------
(* scoring.py: heuristic estimators, values in 1/10000 *)

Clamp(lo, hi, x) == Max(lo, Min(hi, x))

_heuristic_impact(sub, meta, static) ==
    LET desc   == Min(20000, sub.description_words * 125)
        loc    == IF meta.files.total_loc <= 0 THEN 0
                  ELSE (LogScaleSteep(meta.files.total_loc) * 5) \div 2
        fw     == Min(10000, Cardinality(static.structure.frameworks_detected) * 4000)
        readme == IF meta.files.has_readme THEN 10000 ELSE 0
        deploy == (IF static.structure.has_docker THEN 5000 ELSE 0)
                  + (IF static.structure.has_ci THEN 5000 ELSE 0)
                  + (IF static.structure.has_env_example THEN 5000 ELSE 0)
    IN  Clamp(10000, 100000, desc + loc + fw + readme + deploy)

SdkPatterns == {"anthropic_sdk", "openai_sdk", "gemini_sdk"}

\* _heuristic_ai_use that adds the SDK bonus once per SDK found
HeuristicAiUsePerSdk(static) ==
    LET raw      == static.integration_score
        patterns == static.integration_patterns
        base     == 10000 + LogScaleTimes(70000, raw, 60)
        bonus    == (IF "extended_thinking" \in patterns THEN 4000 ELSE 0)
                    + (IF "mcp_server" \in patterns THEN 3000 ELSE 0)
                    + (IF "agentic_pattern" \in patterns THEN 3000 ELSE 0)
                    + 3000 * Cardinality(patterns \cap SdkPatterns)
                    + (IF "tool_use" \in patterns THEN 2000 ELSE 0)
    IN  IF raw = 0 THEN 10000 ELSE Clamp(10000, 80000, base + bonus)

_heuristic_ai_use(static) ==
    LET raw      == static.integration_score
        patterns == static.integration_patterns
        base     == 10000 + LogScaleTimes(70000, raw, 60)
        bonus    == (IF "extended_thinking" \in patterns THEN 4000 ELSE 0)
                    + (IF "mcp_server" \in patterns THEN 3000 ELSE 0)
                    + (IF "agentic_pattern" \in patterns THEN 3000 ELSE 0)
                    + (IF patterns \cap SdkPatterns # {} THEN 3000 ELSE 0)
                    + (IF "tool_use" \in patterns THEN 2000 ELSE 0)
    IN  IF raw = 0 THEN 10000 ELSE Clamp(10000, 80000, base + bonus)

NonCodeLanguages == {"Markdown", "JSON", "YAML", "TOML"}

\* _heuristic_depth that takes 3.0 off for either prior-work flag
HeuristicDepthFlatFlagPenalty(meta, static) ==
    LET commits == IF meta.git_history.commits_during_hackathon # 0
                   THEN meta.git_history.commits_during_hackathon
                   ELSE meta.git_history.total_commits
        code_langs == meta.files.languages \ NonCodeLanguages
        flag    == meta.git_history.hackathon_period_flag
        bonus   == LogScaleTimes(25000, commits, 50)
                   + LogScaleTimes(20000, meta.files.total_loc, 10000)
                   + (IF meta.files.has_tests THEN 10000 ELSE 0)
                   + (IF static.structure.has_claude_md THEN 5000 ELSE 0)
                   + (IF meta.files.has_readme THEN 5000 ELSE 0)
                   + (IF Cardinality(code_langs) >= 3 THEN 5000 ELSE 0)
                   + (IF static.structure.has_docker THEN 5000 ELSE 0)
                   + (IF static.structure.has_ci THEN 5000 ELSE 0)
                   + LogScaleTimes(10000, meta.files.file_count, 50)
        penalty == (IF meta.git_history.is_single_commit_dump THEN 20000 ELSE 0)
                   + (IF static.is_boilerplate_heavy THEN 20000 ELSE 0)
                   + (IF flag \in {"pre_existing_project", "significant_prior_work"}
                      THEN 30000 ELSE 0)
    IN  Clamp(10000, 100000, bonus - penalty)

_heuristic_depth(meta, static) ==
    LET commits == IF meta.git_history.commits_during_hackathon # 0
                   THEN meta.git_history.commits_during_hackathon
                   ELSE meta.git_history.total_commits
        code_langs == meta.files.languages \ NonCodeLanguages
        flag    == meta.git_history.hackathon_period_flag
        bonus   == LogScaleTimes(25000, commits, 50)
                   + LogScaleTimes(20000, meta.files.total_loc, 10000)
                   + (IF meta.files.has_tests THEN 10000 ELSE 0)
                   + (IF static.structure.has_claude_md THEN 5000 ELSE 0)
                   + (IF meta.files.has_readme THEN 5000 ELSE 0)
                   + (IF Cardinality(code_langs) >= 3 THEN 5000 ELSE 0)
                   + (IF static.structure.has_docker THEN 5000 ELSE 0)
                   + (IF static.structure.has_ci THEN 5000 ELSE 0)
                   + LogScaleTimes(10000, meta.files.file_count, 50)
        penalty == (IF meta.git_history.is_single_commit_dump THEN 20000 ELSE 0)
                   + (IF static.is_boilerplate_heavy THEN 20000 ELSE 0)
                   + (IF flag = "pre_existing_project" THEN 30000
                      ELSE IF flag = "significant_prior_work" THEN 15000
                      ELSE 0)
    IN  Clamp(10000, 100000, bonus - penalty)

\* _heuristic_demo that does not look at download.success
HeuristicDemoIgnoringDownload(video) ==
    IF video = None THEN 10000
    ELSE LET dur == video[1].download.duration_seconds
             add == IF dur < 30 THEN 3000
                    ELSE IF dur < 60 THEN 10000
                    ELSE IF dur <= 200 THEN 25000
                    ELSE 20000
         IN  Clamp(10000, 80000, 10000 + add)

\* video is an option; duration_seconds is counted in whole seconds
_heuristic_demo(video) ==
    IF video = None THEN 10000
    ELSE IF ~video[1].download.success THEN 10000
    ELSE LET dur == video[1].download.duration_seconds
             add == IF dur < 30 THEN 3000
                    ELSE IF dur < 60 THEN 10000
                    ELSE IF dur <= 200 THEN 25000
                    ELSE 20000
         IN  Clamp(10000, 80000, 10000 + add)

----------------------------------------------------------------------------
(* scoring.py: _score_one *)

\* the keys of heuristic_map
HeuristicNames == {"impact", "ai_use", "depth", "demo"}

\* HeuristicValue that remembers an earlier call: one point more from the
\* second call of run_scoring on
HeuristicValueSecondCall(crit_name, sub, _meta, _static, video) ==
    (IF previous = None THEN 0 ELSE 10000)
    + (CASE crit_name = "impact" -> _heuristic_impact(sub, _meta, _static)
         [] crit_name = "ai_use" -> _heuristic_ai_use(_static)
         [] crit_name = "depth"  -> _heuristic_depth(_meta, _static)
         [] crit_name = "demo"   -> _heuristic_demo(video)
         [] OTHER                -> 50000)

\* HeuristicValue whose default for an unknown key is the floor 1.0
HeuristicValueUnknownFloor(crit_name, sub, _meta, _static, video) ==
    CASE crit_name = "impact" -> _heuristic_impact(sub, _meta, _static)
      [] crit_name = "ai_use" -> _heuristic_ai_use(_static)
      [] crit_name = "depth"  -> _heuristic_depth(_meta, _static)
      [] crit_name = "demo"   -> _heuristic_demo(video)
      [] OTHER                -> 10000

\* heuristic_map.get(crit_name) applied, or the 5.0 default
HeuristicValue(crit_name, sub, _meta, _static, video) ==
    CASE crit_name = "impact" -> _heuristic_impact(sub, _meta, _static)
      [] crit_name = "ai_use" -> _heuristic_ai_use(_static)
      [] crit_name = "depth"  -> _heuristic_depth(_meta, _static)
      [] crit_name = "demo"   -> _heuristic_demo(video)
      [] OTHER                -> 50000

\* ReviewScore without the test of the success flag
ReviewScoreIgnoringSuccess(crit_name, code_review) ==
    IF code_review = None THEN None
    ELSE IF crit_name \in DOMAIN code_review[1].scores
         THEN Some(code_review[1].scores[crit_name].score)
         ELSE None

\* first `if` of the loop body: the code review's score for crit_name
ReviewScore(crit_name, code_review) ==
    IF code_review = None THEN None
    ELSE IF code_review[1].success /\ crit_name \in DOMAIN code_review[1].scores
         THEN Some(code_review[1].scores[crit_name].score)
         ELSE None

\* LlmScore with the two tests chained by elif: the code review first
LlmScoreReviewFirst(crit_name, code_review, video) ==
    IF ReviewScore(crit_name, code_review) # None
    THEN ReviewScore(crit_name, code_review)
    ELSE IF video = None THEN None
    ELSE IF crit_name = "demo" /\ video[1].analysis_success
            /\ "demo" \in DOMAIN video[1].scores
         THEN Some(video[1].scores["demo"].score)
         ELSE None

\* LlmScore reading the video's score of any criterion, not only "demo"
LlmScoreAnyVideoKey(crit_name, code_review, video) ==
    IF video = None THEN ReviewScore(crit_name, code_review)
    ELSE IF video[1].analysis_success /\ crit_name \in DOMAIN video[1].scores
         THEN Some(video[1].scores[crit_name].score)
         ELSE ReviewScore(crit_name, code_review)

\* LlmScore that drops the code review's score: only the video counts
LlmScoreVideoOnly(crit_name, code_review, video) ==
    IF video = None THEN None
    ELSE IF crit_name = "demo" /\ video[1].analysis_success
            /\ "demo" \in DOMAIN video[1].scores
         THEN Some(video[1].scores["demo"].score)
         ELSE None

\* second `if` of the loop body: the video's "demo" score replaces llm_score
LlmScore(crit_name, code_review, video) ==
    IF video = None THEN ReviewScore(crit_name, code_review)
    ELSE IF crit_name = "demo" /\ video[1].analysis_success
            /\ "demo" \in DOMAIN video[1].scores
         THEN Some(video[1].scores["demo"].score)
         ELSE ReviewScore(crit_name, code_review)

\* MergedScore whose fallback forgets source=: the default "automated" stays
MergedScoreDefaultSource(crit_name, sub, _meta, _static, code_review, video) ==
    LET llm_score == LlmScore(crit_name, code_review, video)
    IN  IF llm_score # None
        THEN {CriterionScore(llm_score[1], "llm_review")}
        ELSE {CriterionScore(val, "automated") :
                val \in Round1(HeuristicValue(crit_name, sub, _meta, _static,
                                              video))}

\* MergedScore that stores the upstream CriterionScore as it is, with the
\* provider's name as source
MergedScoreKeepsUpstream(crit_name, sub, _meta, _static, code_review, video) ==
    LET llm_score == LlmScore(crit_name, code_review, video)
    IN  IF llm_score # None
        THEN {IF ReviewScore(crit_name, code_review) # None
              THEN [code_review[1].scores[crit_name] EXCEPT !.score = llm_score[1]]
              ELSE [video[1].scores["demo"] EXCEPT !.score = llm_score[1]]}
        ELSE {CriterionScore(val, "heuristic") :
                val \in Round1(HeuristicValue(crit_name, sub, _meta, _static,
                                              video))}

\* MergedScore that passes the review text on as the rationale
MergedScoreWithRationale(crit_name, sub, _meta, _static, code_review, video) ==
    LET llm_score == LlmScore(crit_name, code_review, video)
    IN  IF llm_score # None
        THEN {[CriterionScore(llm_score[1], "llm_review") EXCEPT
                  !.rationale = IF ReviewScore(crit_name, code_review) # None
                                THEN code_review[1].review_text
                                ELSE video[1].review_text]}
        ELSE {CriterionScore(val, "heuristic") :
                val \in Round1(HeuristicValue(crit_name, sub, _meta, _static,
                                              video))}

\* MergedScore that rounds the LLM score to one decimal, as it rounds an
\* estimate
MergedScoreLlmRounded(crit_name, sub, _meta, _static, code_review, video) ==
    LET llm_score == LlmScore(crit_name, code_review, video)
    IN  IF llm_score # None
        THEN {CriterionScore(10 * q, "llm_review") :
                q \in RoundTo(10, llm_score[1])}
        ELSE {CriterionScore(val, "heuristic") :
                val \in Round1(HeuristicValue(crit_name, sub, _meta, _static,
                                              video))}

\* the CriterionScore the loop body can store for crit_name
MergedScore(crit_name, sub, _meta, _static, code_review, video) ==
    LET llm_score == LlmScore(crit_name, code_review, video)
    IN  IF llm_score # None
        THEN {CriterionScore(llm_score[1], "llm_review")}
        ELSE {CriterionScore(val, "heuristic") :
                val \in Round1(HeuristicValue(crit_name, sub, _meta, _static,
                                              video))}

RECURSIVE SumOverUnweighted(_, _, _)
\* SumOver with `total += score`: the weight is forgotten
SumOverUnweighted(todo, ps_scores, criteria) ==
    IF todo = {} THEN 0
    ELSE LET c == CHOOSE x \in todo : TRUE
         IN  (IF c \in DOMAIN ps_scores THEN ps_scores[c].score * 1000 ELSE 0)
             + SumOverUnweighted(todo \ {c}, ps_scores, criteria)

\* SumOver with `total = ...` for `total += ...`: one term survives
SumOverLastTerm(todo, ps_scores, criteria) ==
    IF todo = {} THEN 0
    ELSE LET c == CHOOSE x \in todo : TRUE
         IN  IF c \in DOMAIN ps_scores
             THEN ps_scores[c].score * criteria[c].weight
             ELSE 0

RECURSIVE SumOver(_, _, _)
\* sum of ps_scores[c].score * criteria[c].weight over the names in todo
SumOver(todo, ps_scores, criteria) ==
    IF todo = {} THEN 0
    ELSE LET c == CHOOSE x \in todo : TRUE
         IN  (IF c \in DOMAIN ps_scores
              THEN ps_scores[c].score * criteria[c].weight
              ELSE 0)
             + SumOver(todo \ {c}, ps_scores, criteria)

\* WeightedTotal that cuts the total to 2 decimals instead of rounding it
WeightedTotalTruncated(ps_scores, criteria) ==
    {SumOver(DOMAIN criteria, ps_scores, criteria) \div 1000}

\* the "Weighted total" block: the possible results, in hundredths
WeightedTotal(ps_scores, criteria) ==
    Round2(SumOver(DOMAIN criteria, ps_scores, criteria))

\* ScoringDisabled that tests only `not cfg.scoring`
ScoringDisabledNoneOnly(c) == c.scoring = None

\* `not cfg.scoring or not cfg.scoring.criteria`
ScoringDisabled(c) ==
    IF c.scoring = None THEN TRUE ELSE DOMAIN c.scoring[1].criteria = {}

RECURSIVE Choices(_)
\* the mappings that pick one element of options[n] for every n
Choices(options) ==
    IF DOMAIN options = {} THEN {<<>>}
    ELSE LET n    == CHOOSE x \in DOMAIN options : TRUE
             rest == Choices([m \in DOMAIN options \ {n} |-> options[m]])
         IN  {[m \in DOMAIN options |-> IF m = n THEN v ELSE g[m]] :
                 v \in options[n], g \in rest}

\* _score_one that gives up on a submission without repository metadata or
\* static analysis: the empty ProjectScore
ScoreOneNeedsEvidence(sub, meta, static, code_review, video, c) ==
    IF ScoringDisabled(c) \/ meta = None \/ static = None
    THEN {ProjectScore(sub.team_number, sub.team_name, sub.project_name)}
    ELSE
        LET ps       == ProjectScore(sub.team_number, sub.team_name,
                                     sub.project_name)
            criteria == c.scoring[1].criteria
            merged   == [crit_name \in DOMAIN criteria |->
                             MergedScore(crit_name, sub, meta[1], static[1],
                                         code_review, video)]
        IN  UNION {{[ps EXCEPT !.scores = ps_scores,
                                    !.weighted_total = total] :
                        total \in WeightedTotal(ps_scores, criteria)} :
                   ps_scores \in Choices(merged)}

\* _score_one that also stores the scores a successful code review carries
\* under keys that are not configured
ScoreOneKeepsReviewKeys(sub, meta, static, code_review, video, c) ==
    IF ScoringDisabled(c)
    THEN {ProjectScore(sub.team_number, sub.team_name, sub.project_name)}
    ELSE
        LET ps       == ProjectScore(sub.team_number, sub.team_name,
                                     sub.project_name)
            criteria == c.scoring[1].criteria
            _meta    == IF meta # None THEN meta[1]
                        ELSE RepoMetadata(sub.team_number)
            _static  == IF static # None THEN static[1]
                        ELSE StaticAnalysisResult(sub.team_number)
            extra    == IF code_review = None THEN {}
                        ELSE IF code_review[1].success
                             THEN DOMAIN code_review[1].scores
                             ELSE {}
            merged   == [crit_name \in DOMAIN criteria \cup extra |->
                             MergedScore(crit_name, sub, _meta, _static,
                                         code_review, video)]
        IN  UNION {{[ps EXCEPT !.scores = ps_scores,
                                    !.weighted_total = total] :
                        total \in WeightedTotal(ps_scores, criteria)} :
                   ps_scores \in Choices(merged)}

\* the ProjectScore records _score_one can return
_score_one(sub, meta, static, code_review, video, c) ==
    IF ScoringDisabled(c)
    THEN {ProjectScore(sub.team_number, sub.team_name, sub.project_name)}
    ELSE
        LET ps       == ProjectScore(sub.team_number, sub.team_name,
                                     sub.project_name)
            criteria == c.scoring[1].criteria
            _meta    == IF meta # None THEN meta[1]
                        ELSE RepoMetadata(sub.team_number)
            _static  == IF static # None THEN static[1]
                        ELSE StaticAnalysisResult(sub.team_number)
            merged   == [crit_name \in DOMAIN criteria |->
                             MergedScore(crit_name, sub, _meta, _static,
                                         code_review, video)]
        IN  UNION {{[ps EXCEPT !.scores = ps_scores,
                                    !.weighted_total = total] :
                        total \in WeightedTotal(ps_scores, criteria)} :
                   ps_scores \in Choices(merged)}

----------------------------------------------------------------------------
(* providers/anthropic.py, providers/gemini.py: what a provider reports *)

\* ProviderScore without the clamp
ProviderScoreUnclamped(val) == 100 * val

\* max(1, min(10, int(val))), stored as a float score (in hundredths)
ProviderScore(val) == 100 * Max(1, Min(10, val))

\* code_review.py / video_analysis.py: result.scores[key] =
\* CriterionScore(score=val, source=<provider name>) for every reported key
ProviderScores(keys, val, provider) ==
    [k \in keys |-> CriterionScore(ProviderScore(val), provider)]

\* the same for a response that gives each key its own value
Reported(vals, provider) ==
    [k \in DOMAIN vals |-> CriterionScore(ProviderScore(vals[k]), provider)]

----------------------------------------------------------------------------
(* scoring.py: scores.json, written by run_scoring and read by load_scores *)

RECURSIVE Utf8Encode(_)
\* str -> bytes through a file opened with encoding="utf-8" (code points
\* below 0x800: one byte, or a lead byte and a continuation byte)
Utf8Encode(text) ==
    IF text = <<>> THEN <<>>
    ELSE (IF Head(text) < 128 THEN <<Head(text)>>
          ELSE <<192 + (Head(text) \div 64), 128 + (Head(text) % 64)>>)
         \o Utf8Encode(Tail(text))

RECURSIVE Utf8Decode(_)
\* bytes -> option of str; None stands for UnicodeDecodeError
Utf8Decode(bytes) ==
    IF bytes = <<>> THEN Some(<<>>)
    ELSE IF bytes[1] < 128
         THEN LET rest == Utf8Decode(Tail(bytes))
              IN  IF rest = None THEN None ELSE Some(<<bytes[1]>> \o rest[1])
    ELSE IF bytes[1] >= 194 /\ bytes[1] < 224 /\ Len(bytes) >= 2
         THEN IF bytes[2] >= 128 /\ bytes[2] < 192
              THEN LET rest == Utf8Decode(Tail(Tail(bytes)))
                   IN  IF rest = None THEN None
                       ELSE Some(<<(bytes[1] - 192) * 64 + bytes[2] - 128>>
                                 \o rest[1])
              ELSE None
    ELSE None

\* the bytes cp1252 leaves undefined
Cp1252Undefined == {129, 141, 143, 144, 157}

\* one byte -> one code point under cp1252
Cp1252Char(b) ==
    IF b < 128 THEN b
    ELSE IF b >= 160 THEN b
    ELSE CASE b = 128 -> 8364 [] b = 130 -> 8218 [] b = 131 -> 402
           [] b = 132 -> 8222 [] b = 133 -> 8230 [] b = 134 -> 8224
           [] b = 135 -> 8225 [] b = 136 -> 710  [] b = 137 -> 8240
           [] b = 138 -> 352  [] b = 139 -> 8249 [] b = 140 -> 338
           [] b = 142 -> 381  [] b = 145 -> 8216 [] b = 146 -> 8217
           [] b = 147 -> 8220 [] b = 148 -> 8221 [] b = 149 -> 8226
           [] b = 150 -> 8211 [] b = 151 -> 8212 [] b = 152 -> 732
           [] b = 153 -> 8482 [] b = 154 -> 353  [] b = 155 -> 8250
           [] b = 156 -> 339  [] b = 158 -> 382  [] b = 159 -> 376

\* the encodings open(path) can use when none is given: the platform's
\* (UTF-8; cp1252 on Windows; ASCII in the C locale without UTF-8 mode)
Encodings == {"utf-8", "cp1252", "ascii"}

\* bytes -> option of str under the encoding enc
Decode(enc, bytes) ==
    IF enc = "utf-8" THEN Utf8Decode(bytes)
    ELSE IF enc = "cp1252"
         THEN IF \E k \in 1..Len(bytes) : bytes[k] \in Cp1252Undefined
              THEN None
              ELSE Some([k \in 1..Len(bytes) |-> Cp1252Char(bytes[k])])
    ELSE IF \E k \in 1..Len(bytes) : bytes[k] >= 128 THEN None
         ELSE Some(bytes)

\* json.dump([s.model_dump(mode="json") for s in scores], f,
\* ensure_ascii=False) into a file opened with encoding="utf-8": the names
\* reach the disk as UTF-8 bytes; the numbers are written by repr, which
\* float() reads back exactly, and the literals are ASCII
WriteJson(list) ==
    [k \in 1..Len(list) |->
        [list[k] EXCEPT !.team_name = Utf8Encode(@),
                        !.project_name = Utf8Encode(@)]]

\* json.load of a file opened without encoding=, then ProjectScore(**s):
\* the list read, or ok = FALSE for UnicodeDecodeError
ReadJson(enc, content) ==
    IF \E k \in 1..Len(content) :
           IF Decode(enc, content[k].team_name) = None THEN TRUE
           ELSE Decode(enc, content[k].project_name) = None
    THEN [ok |-> FALSE, value |-> <<>>]
    ELSE [ok |-> TRUE,
          value |-> [k \in 1..Len(content) |->
              [content[k] EXCEPT
                  !.team_name = Decode(enc, content[k].team_name)[1],
                  !.project_name = Decode(enc, content[k].project_name)[1]]]]

\* load_scores(cfg) where open() uses the encoding enc
load_scores(enc) ==
    IF scores_json = None THEN [ok |-> TRUE, value |-> <<>>]
    ELSE ReadJson(enc, scores_json[1])

----------------------------------------------------------------------------
(* scoring.py: run_scoring *)

\* {x.team_number: x for x in list}.get(team_number): the last record wins
MapGet(list, team_number) ==
    LET hits == {i \in 1..Len(list) : list[i].team_number = team_number}
    IN  IF hits = {} THEN None
        ELSE Some(list[CHOOSE i \in hits : \A j \in hits : j <= i])

\* ScoreOf that looks the evidence up by the position of the submission
\* in the list instead of its team number
ScoreOfByPosition(i) ==
    _score_one(submissions[i],
               MapGet(repo_metadata, i),
               MapGet(static_results, i),
               MapGet(code_reviews, i),
               MapGet(video_results, i),
               cfg)

\* ScoreOf with a resume mode: a team that scores.json already holds a
\* record for keeps that record
ScoreOfResumed(i) ==
    LET sub  == submissions[i]
        disk == load_scores("utf-8").value
    IN  IF MapGet(disk, sub.team_number) # None
        THEN {MapGet(disk, sub.team_number)[1]}
        ELSE _score_one(sub,
                        MapGet(repo_metadata, sub.team_number),
                        MapGet(static_results, sub.team_number),
                        MapGet(code_reviews, sub.team_number),
                        MapGet(video_results, sub.team_number),
                        cfg)

\* the ProjectScore records run_scoring can compute for submissions[i]
ScoreOf(i) ==
    LET sub == submissions[i]
    IN  _score_one(sub,
                   MapGet(repo_metadata, sub.team_number),
                   MapGet(static_results, sub.team_number),
                   MapGet(code_reviews, sub.team_number),
                   MapGet(video_results, sub.team_number),
                   cfg)

RECURSIVE InsertDescBeforeEqual(_, _)
\* InsertDesc that puts x before the elements of equal total
InsertDescBeforeEqual(s, x) ==
    IF s = <<>> THEN <<x>>
    ELSE IF Head(s).weighted_total > x.weighted_total
         THEN <<Head(s)>> \o InsertDescBeforeEqual(Tail(s), x)
         ELSE <<x>> \o s

RECURSIVE InsertDesc(_, _)
\* s is sorted by weighted_total descending; x goes after every element
\* whose total is >= its own
InsertDesc(s, x) ==
    IF s = <<>> THEN <<x>>
    ELSE IF Head(s).weighted_total >= x.weighted_total
         THEN <<Head(s)>> \o InsertDesc(Tail(s), x)
         ELSE <<x>> \o s

RECURSIVE SortDescByTotalKey(_)
\* a sort through a mapping keyed by weighted_total: of the records with
\* the same total only one is kept
SortDescByTotalKey(s) ==
    IF s = <<>> THEN <<>>
    ELSE LET rest == SortDescByTotalKey(SubSeq(s, 1, Len(s) - 1))
             x    == s[Len(s)]
         IN  IF \E k \in 1..Len(rest) : rest[k].weighted_total = x.weighted_total
             THEN rest
             ELSE InsertDesc(rest, x)

RECURSIVE SortDesc(_)
\* list.sort(key=weighted_total, reverse=True): descending and stable
SortDesc(s) ==
    IF s = <<>> THEN <<>>
    ELSE InsertDesc(SortDesc(SubSeq(s, 1, Len(s) - 1)), s[Len(s)])

\* the calls of round() behind the record s computed for submissions[i]:
\* which float was rounded (named by the team, the quantity and its decimal
\* value) and the result.  Float arithmetic is a function: where the same
\* float is rounded again, the result is the same.
Roundings(i, s) ==
    LET sub      == submissions[i]
        meta     == MapGet(repo_metadata, sub.team_number)
        static   == MapGet(static_results, sub.team_number)
        video    == MapGet(video_results, sub.team_number)
        _meta    == IF meta # None THEN meta[1]
                    ELSE RepoMetadata(sub.team_number)
        _static  == IF static # None THEN static[1]
                    ELSE StaticAnalysisResult(sub.team_number)
        criteria == cfg.scoring[1].criteria
    IN  {[team |-> sub.team_number, of |-> c,
          value |-> HeuristicValue(c, sub, _meta, _static, video),
          to |-> s.scores[c].score] :
            c \in {d \in DOMAIN s.scores : s.scores[d].source = "heuristic"}}
        \cup {[team |-> sub.team_number, of |-> "weighted_total",
               value |-> SumOver(DOMAIN criteria, s.scores, criteria),
               to |-> s.weighted_total]}

\* no rounding of rs contradicts one already made
Agrees(rs) ==
    \A r \in rs : \A q \in rounded :
        (q.team = r.team /\ q.of = r.of /\ q.value = r.value) => q.to = r.to

\* ReturnDisabled that returns an empty ProjectScore for every submission
ReturnDisabledWithRecords ==
    /\ pc = "start"
    /\ ScoringDisabled(cfg)
    /\ pc' = "done"
    /\ returned' = Some([i \in 1..Len(submissions) |->
                            ProjectScore(submissions[i].team_number,
                                         submissions[i].team_name,
                                         submissions[i].project_name)])
    /\ UNCHANGED <<inputs, scores, scores_json, writes, rounded, previous,
                   loaded,
                   log_calls, stage_vars>>

\* ReturnDisabled that saves the empty list it returns
ReturnDisabledWritesEmpty ==
    /\ pc = "start"
    /\ ScoringDisabled(cfg)
    /\ pc' = "done"
    /\ returned' = Some(<<>>)
    /\ scores_json' = Some(WriteJson(<<>>))
    /\ writes' = writes + 1
    /\ UNCHANGED <<inputs, scores, rounded, previous, loaded,
                   log_calls, stage_vars>>

\* the early return of a disabled run: nothing is scored or written
ReturnDisabled ==
    /\ pc = "start"
    /\ ScoringDisabled(cfg)
    /\ pc' = "done"
    /\ returned' = Some(<<>>)
    /\ UNCHANGED <<inputs, scores, scores_json, writes, rounded, previous,
                   loaded,
                   log_calls, stage_vars>>

\* the maps are built and the list `scores` starts empty
StartLoop ==
    /\ pc = "start"
    /\ ~ScoringDisabled(cfg)
    /\ pc' = "loop"
    /\ scores' = <<>>
    /\ UNCHANGED <<inputs, returned, scores_json, writes, rounded, previous,
                   loaded,
                   log_calls, stage_vars>>

\* one iteration of `for sub in submissions`
ScoreNext ==
    /\ pc = "loop"
    /\ Len(scores) < Len(submissions)
    /\ \E s \in ScoreOf(Len(scores) + 1) :
          /\ Agrees(Roundings(Len(scores) + 1, s))
          /\ scores' = Append(scores, s)
          /\ rounded' = rounded \cup Roundings(Len(scores) + 1, s)
    /\ UNCHANGED <<inputs, pc, returned, scores_json, writes, previous, loaded,
                   log_calls, stage_vars>>

\* after the loop: sort, write scores.json, return
SortAndSave ==
    /\ pc = "loop"
    /\ Len(scores) = Len(submissions)
    /\ scores' = SortDesc(scores)
    /\ scores_json' = Some(WriteJson(SortDesc(scores)))
    /\ writes' = writes + 1
    /\ returned' = Some(SortDesc(scores))
    /\ pc' = "done"
    /\ UNCHANGED <<inputs, rounded, previous, loaded,
                   log_calls, stage_vars>>

Next ==
    \/ ReturnDisabled
    \/ StartLoop
    \/ ScoreNext
    \/ SortAndSave

----------------------------------------------------------------------------
(* The callers: cli.py calls run_scoring from `run` and again from `report`;
   load_scores is there for a caller that wants the persisted list *)

\* the orders a list can be given in
Orders(list) ==
    {[k \in 1..Len(list) |-> list[p[k]]] :
        p \in {q \in [1..Len(list) -> 1..Len(list)] :
                  \A a, b \in 1..Len(list) : q[a] = q[b] => a = b}}

\* run_scoring is called once more, on the same records (the submissions in
\* any order), with what the call before left on disk; the caller keeps the
\* result of the call before and drops what it had loaded
Rerun ==
    /\ pc = "done"
    /\ previous = None
    /\ previous' = Some([submissions |-> submissions, returned |-> returned[1]])
    /\ \E order \in Orders(submissions) : submissions' = order
    /\ pc' = "start"
    /\ scores' = <<>>
    /\ returned' = None
    /\ writes' = 0
    /\ loaded' = None
    /\ UNCHANGED <<cfg, repo_metadata, static_results, code_reviews,
                   video_results, scores_json, rounded,
                   log_calls, stage_vars>>

\* load_scores is called after a run
LoadScores ==
    /\ pc = "done"
    /\ \E enc \in Encodings : loaded' = Some(load_scores(enc))
    /\ UNCHANGED <<inputs, pc, scores, returned, scores_json, writes, rounded,
                   previous,
                   log_calls, stage_vars>>

NextAgain ==
    \/ Next
    \/ Rerun
    \/ LoadScores

----------------------------------------------------------------------------
(* The inputs run_scoring is called with *)

\* largest number of submissions of a batch
MaxSubs == 3

\* len(description.split())
DescWords == {0, 200}

\* "Alpha", "\u00c9quipe" and "\u00cdcaro", as code points
TeamNames ==
    << <<65, 108, 112, 104, 97>>,
       <<201, 113, 117, 105, 112, 101>>,
       <<205, 99, 97, 114, 111>> >>

\* the team name of the CSV row of team t
TeamName(t) == TeamNames[((t - 1) % Len(TeamNames)) + 1]

\* "Proj"
ProjectName == <<80, 114, 111, 106>>

\* stages/parse.py numbers the submissions in row order
Submission(team_number, team_name, project_name, words) ==
    [team_number |-> team_number, team_name |-> team_name,
     project_name |-> project_name, description_words |-> words]

Files(count, loc, langs, readme, tests) ==
    [file_count |-> count, total_loc |-> loc, languages |-> langs,
     has_readme |-> readme, has_tests |-> tests]

Git(total, during, flag, dump) ==
    [total_commits |-> total, commits_during_hackathon |-> during,
     hackathon_period_flag |-> flag, is_single_commit_dump |-> dump]

Meta(t, files, git) ==
    [team_number |-> t, files |-> files, git_history |-> git]

FilesSmall == Files(5, 200, {"Python", "Markdown"}, TRUE, FALSE)

FilesMid == Files(50, 5000, {"Python", "TypeScript", "YAML", "JSON"}, FALSE, TRUE)

FilesBig == Files(120, 20000, {"Python", "TypeScript", "Rust", "JSON"}, TRUE, TRUE)

\* RepoMetadata records of team t, as stages/clone.py writes them
MetaRecords(t) ==
    { RepoMetadata(t),
      Meta(t, FilesSmall, Git(1, 1, "clean", TRUE)),
      Meta(t, FilesMid, Git(50, 30, "minor_prior_work", FALSE)),
      Meta(t, FilesBig, Git(80, 0, "pre_existing_project", FALSE)),
      Meta(t, FilesBig, Git(50, 10, "significant_prior_work", FALSE)),
      Meta(t, FilesBig, Git(50, 50, "clean", FALSE)) }

Structure(docker, ci, env, claude_md, frameworks) ==
    [has_docker |-> docker, has_ci |-> ci, has_env_example |-> env,
     has_claude_md |-> claude_md, frameworks_detected |-> frameworks]

Static(t, score, patterns, boilerplate, structure) ==
    [team_number |-> t, integration_patterns |-> patterns,
     integration_score |-> score, is_boilerplate_heavy |-> boilerplate,
     structure |-> structure]

AllPatterns ==
    {"extended_thinking", "mcp_server", "agentic_pattern", "anthropic_sdk",
     "openai_sdk", "tool_use"}

\* StaticAnalysisResult records of team t
StaticRecords(t) ==
    { StaticAnalysisResult(t),
      Static(t, 5, {"tool_use"}, FALSE, RepoStructure),
      Static(t, 12, {"gemini_sdk"}, TRUE,
             Structure(FALSE, FALSE, TRUE, FALSE, {"react", "fastapi", "nextjs"})),
      Static(t, 60, {"anthropic_sdk", "openai_sdk", "extended_thinking"}, FALSE,
             Structure(TRUE, TRUE, FALSE, TRUE, {"fastapi"})),
      Static(t, 300, AllPatterns, FALSE,
             Structure(TRUE, TRUE, TRUE, TRUE, {"react", "fastapi", "nextjs"})) }

\* result.review_text = resp.review_text: the text of a successful review
Review(t, success, sc) ==
    [team_number |-> t, success |-> success,
     review_text |-> IF success THEN "Solid architecture." ELSE "",
     scores |-> sc]

\* CodeReviewResult records of team t; the scores are what a provider
\* reported for the keys it was asked about
ReviewRecords(t) ==
    { Review(t, FALSE, <<>>),
      Review(t, FALSE, ProviderScores({"depth", "demo"}, 7, "anthropic")),
      Review(t, TRUE, <<>>),
      Review(t, TRUE, ProviderScores({"depth"}, 7, "anthropic")),
      Review(t, TRUE, ProviderScores({"demo"}, 0, "gemini")),
      Review(t, TRUE, ProviderScores({"demo", "depth"}, 3, "anthropic")),
      Review(t, TRUE, ProviderScores({"impact", "ai_use", "depth"}, 12, "gemini")),
      Review(t, TRUE, ProviderScores({"impact", "ai_use", "depth", "demo",
                                      "novelty"}, 7, "anthropic")),
      Review(t, TRUE, Reported(
          [k \in {"impact", "depth", "ai_use"} |->
              CASE k = "impact" -> 7 [] k = "depth" -> 6 [] k = "ai_use" -> 8],
          "anthropic")) }

Download(success, duration) ==
    [success |-> success, duration_seconds |-> duration]

Video(t, download, analysis_success, sc) ==
    [team_number |-> t, download |-> download,
     analysis_success |-> analysis_success,
     review_text |-> IF analysis_success THEN "Clear live demo." ELSE "",
     scores |-> sc]

\* VideoAnalysisResult records of team t
VideoRecords(t) ==
    { Video(t, Download(FALSE, 0), FALSE, <<>>),
      Video(t, Download(TRUE, 10), FALSE, <<>>),
      Video(t, Download(TRUE, 45), FALSE, ProviderScores({"demo"}, 5, "gemini")),
      Video(t, Download(TRUE, 120), TRUE, ProviderScores({"demo"}, 5, "gemini")),
      Video(t, Download(TRUE, 120), TRUE,
            ProviderScores({"demo", "impact"}, 12, "gemini")),
      Video(t, Download(TRUE, 59), TRUE, ProviderScores({"impact"}, 2, "gemini")),
      Video(t, Download(TRUE, 300), TRUE, <<>>) }

Option(S) == {None} \cup {Some(x) : x \in S}

\* the evidence of one submission: each record present or absent
Evidence(meta, static, review, video) ==
    [meta |-> meta, static |-> static, review |-> review, video |-> video]

\* every combination of the records above
RichEvidence(t) ==
    { Evidence(m, s, r, v) :
        m \in Option(MetaRecords(t)), s \in Option(StaticRecords(t)),
        r \in Option(ReviewRecords(t)), v \in Option(VideoRecords(t)) }

\* a few combinations, for batches of several submissions
BatchEvidence(t) ==
    { Evidence(None, None, None, None),
      Evidence(Some(Meta(t, FilesSmall, Git(1, 1, "clean", TRUE))),
               Some(StaticAnalysisResult(t)), None, None),
      Evidence(Some(Meta(t, FilesBig, Git(50, 50, "clean", FALSE))),
               Some(Static(t, 60, {"anthropic_sdk", "tool_use"}, FALSE,
                           Structure(TRUE, TRUE, FALSE, TRUE, {"fastapi"}))),
               Some(Review(t, FALSE, <<>>)),
               Some(Video(t, Download(TRUE, 120), FALSE, <<>>))),
      Evidence(None, None,
               Some(Review(t, TRUE, ProviderScores({"depth"}, 7, "anthropic"))),
               None),
      Evidence(Some(RepoMetadata(t)), None,
               Some(Review(t, TRUE, ProviderScores(
                   {"impact", "ai_use", "depth", "demo"}, 3, "anthropic"))),
               Some(Video(t, Download(TRUE, 45), TRUE,
                          ProviderScores({"demo"}, 9, "gemini")))) }

Criterion(weight) == [weight |-> weight]

Scoring(criteria) == [criteria |-> criteria]

Config(scoring) == [scoring |-> scoring]

DefaultCriteria ==
    [c \in {"impact", "ai_use", "depth", "demo"} |->
        Criterion(CASE c = "impact" -> 250 [] c = "ai_use" -> 250
                    [] c = "depth" -> 200 [] c = "demo" -> 300)]

\* configurations: no scoring section, no criteria, and criteria mappings
Configs ==
    { Config(None),
      Config(Some(Scoring(<<>>))),
      Config(Some(Scoring(DefaultCriteria))),
      Config(Some(Scoring([c \in {"depth"} |-> Criterion(1000)]))),
      Config(Some(Scoring([c \in {"demo", "depth"} |->
                              Criterion(IF c = "demo" THEN 300 ELSE 0)]))),
      Config(Some(Scoring([c \in {"ai_use"} |-> Criterion(125)]))),
      Config(Some(Scoring([c \in {"impact", "novelty"} |->
                              Criterion(IF c = "impact" THEN 333 ELSE 1500)]))) }

\* no LLM stage runs
StageIdle ==
    /\ stage = "none"
    /\ resume = FALSE
    /\ out_file = None
    /\ saved = <<>>
    /\ lpc = "idle"
    /\ existing = <<>>
    /\ results_map = <<>>
    /\ work = <<>>
    /\ pending = {}
    /\ completed = 0
    /\ sent = {}
    /\ results = None
    /\ saves = 0

RECURSIVE Present(_, _)
\* the records present among f[1..n], in submission order
Present(f, n) ==
    IF n = 0 THEN <<>> ELSE Present(f, n - 1) \o f[n]

\* run_scoring is about to be called on a batch of n submissions whose
\* evidence is ev[1..n]
InitBatch(n, ev, words, c, disk) ==
    /\ cfg = c
    /\ submissions = [i \in 1..n |->
                         Submission(i, TeamName(i), ProjectName, words[i])]
    /\ repo_metadata = Present([i \in 1..n |-> ev[i].meta], n)
    /\ static_results = Present([i \in 1..n |-> ev[i].static], n)
    /\ code_reviews = Present([i \in 1..n |-> ev[i].review], n)
    /\ video_results = Present([i \in 1..n |-> ev[i].video], n)
    /\ pc = "start"
    /\ scores = <<>>
    /\ returned = None
    /\ scores_json = disk
    /\ writes = 0
    /\ rounded = {}
    /\ previous = None
    /\ loaded = None
    /\ log_calls = <<>>
    /\ StageIdle

\* batches of up to MaxSubs submissions
Init ==
    \E n \in 0..MaxSubs :
        \E ev \in [1..n -> UNION {BatchEvidence(t) : t \in 1..n}] :
            \E c \in Configs :
                /\ \A i \in 1..n : ev[i] \in BatchEvidence(i)
                /\ InitBatch(n, ev, [i \in 1..n |-> 200], c, None)

\* one submission with every combination of evidence
InitOne ==
    \E e \in RichEvidence(1) :
        \E w \in DescWords :
            \E c \in Configs :
                InitBatch(1, <<e>>, <<w>>, c, None)

\* what an earlier run, on other data, can have left in scores.json
StaleScores ==
    WriteJson(<< [ProjectScore(1, TeamName(2), ProjectName)
                     EXCEPT !.weighted_total = 999] >>)

\* largest number of submissions of a batch that is scored twice
MaxAgain == 2

\* batches as in Init, with or without a scores.json on disk
InitAgain ==
    \E n \in 0..MaxAgain :
        \E ev \in [1..n -> UNION {BatchEvidence(t) : t \in 1..n}] :
            \E c \in Configs :
                \E disk \in {None, Some(StaleScores)} :
                    /\ \A i \in 1..n : ev[i] \in BatchEvidence(i)
                    /\ InitBatch(n, ev, [i \in 1..n |-> 200], c, disk)

Spec == Init /\ [][Next]_vars

SpecOne == InitOne /\ [][Next]_vars

SpecAgain == InitAgain /\ [][NextAgain]_vars

----------------------------------------------------------------------------
(* Records that were not written by this version's providers: cli.py `report`
   reads code_reviews.json and video_analysis.json from disk, and
   CriterionScore accepts any float *)

\* scores as a file gives them, in hundredths
FromFile(vals) == [k \in DOMAIN vals |-> CriterionScore(vals[k], "manual")]

\* CodeReviewResult records with scores 12.5, 7.25, 0.0, 3.33
RawReviewRecords(t) ==
    { Review(t, TRUE, FromFile([k \in {"impact", "depth"} |->
                                   IF k = "impact" THEN 1250 ELSE 725])),
      Review(t, TRUE, FromFile([k \in {"demo", "ai_use"} |->
                                   IF k = "demo" THEN 0 ELSE 333])),
      Review(t, FALSE, FromFile([k \in {"depth"} |-> 1250])) }

\* VideoAnalysisResult records with "demo" scores 11.05 and -0.5
RawVideoRecords(t) ==
    { Video(t, Download(TRUE, 120), TRUE, FromFile([k \in {"demo"} |-> 1105])),
      Video(t, Download(TRUE, 45), TRUE, FromFile([k \in {"demo"} |-> -50])) }

\* one submission whose code review and video analysis come from such files
InitRaw ==
    \E m \in {None, Some(Meta(1, FilesMid, Git(50, 30, "minor_prior_work", FALSE)))} :
        \E st \in {None, Some(Static(1, 5, {"tool_use"}, FALSE, RepoStructure))} :
            \E r \in Option(RawReviewRecords(1)) :
                \E v \in Option(RawVideoRecords(1)) :
                    \E w \in DescWords :
                        \E c \in Configs :
                            InitBatch(1, <<Evidence(m, st, r, v)>>, <<w>>, c, None)

SpecRaw == InitRaw /\ [][Next]_vars

----------------------------------------------------------------------------
(* _log_scale on its own: the calls the estimators make *)

\* largest number of calls of _log_scale in one behaviour
MaxCalls == 2

\* commit counts, file counts, integration scores and line counts
LogValues ==
    {-1, 0, 1, 5, 12, 30, 49, 50, 51, 60, 80, 120, 200, 300, 5000, 10000, 20000}

\* the arguments of the calls: midpoints 50 (commits, files), 60
\* (integration score) and 10000 (lines) with steepness 1.0, and midpoint
\* 5000 (lines) with steepness 1.2
LogArgs ==
    {[value |-> v, midpoint |-> m, steepness |-> 10] :
        v \in LogValues, m \in {50, 60, 10000}}
    \cup {[value |-> v, midpoint |-> 5000, steepness |-> 12] :
            v \in {-1, 0, 200, 5000, 20000}}

\* one call of _log_scale
LogScaleCall ==
    /\ Len(log_calls) < MaxCalls
    /\ \E a \in LogArgs :
          log_calls' = Append(log_calls,
              [value |-> a.value, midpoint |-> a.midpoint,
               steepness |-> a.steepness,
               result |-> _log_scale(a.value, a.midpoint, a.steepness)])
    /\ UNCHANGED <<inputs, pc, scores, returned, scores_json, writes, rounded,
                   previous, loaded, stage_vars>>

InitLog == InitBatch(0, <<>>, <<>>, Config(None), None)

SpecLog == InitLog /\ [][LogScaleCall]_vars

----------------------------------------------------------------------------
(* code_review.py, video_analysis.py: the LLM stages and their resume files *)

\* largest batch an LLM stage is run on
MaxBatch == 12

\* `if completed % 10 == 0`: the loop saves after every 10th completion
SaveEvery == 10

\* CodeReviewResult, with the fields the stage sets
CodeReviewResult(team_number, success, error, review_text, sc) ==
    [team_number |-> team_number, success |-> success, error |-> error,
     review_text |-> review_text, scores |-> sc]

\* VideoAnalysisResult, with the fields the stage sets
VideoAnalysisResult(team_number, download, analysis_success, analysis_error, review_text, sc) ==
    [team_number |-> team_number, download |-> download,
     analysis_success |-> analysis_success,
     analysis_error |-> analysis_error,
     review_text |-> review_text, scores |-> sc]

\* the field resume looks at: success for a code review, analysis_success
\* for a video analysis
Succeeded(r) ==
    IF "success" \in DOMAIN r THEN r.success ELSE r.analysis_success

\* review texts a provider answers with, as code points: "Solid", "naïve"
\* (UTF-8 c3 af) and "Ágil" (UTF-8 c3 81, and 0x81 is undefined in
\* cp1252)
ReviewTexts ==
    << <<83, 111, 108, 105, 100>>,
       <<110, 97, 239, 118, 101>>,
       <<193, 103, 105, 108>> >>

\* the response of the provider for team t: resp.success, resp.error,
\* resp.review_text, resp.scores.  The call for team 2 succeeds or fails,
\* every fourth call fails, the others succeed.
Responses(t, key, provider) ==
    LET good == [success |-> TRUE, error |-> None,
                 review_text |-> ReviewTexts[(t % 3) + 1],
                 scores |-> ProviderScores({key}, 3 + (t % 7), provider)]
        bad  == [success |-> FALSE, error |-> Some("api_error"),
                 review_text |-> <<>>, scores |-> <<>>]
    IN  IF t = 2 THEN {good, bad}
        ELSE IF t % 4 = 0 THEN {bad}
        ELSE {good}

\* RepoMetadata of team t for the code review: clone_success and what the
\* prompt quotes
StageMeta(t, clone_success) ==
    [team_number |-> t, clone_success |-> clone_success,
     files |-> FilesSmall,
     git_history |-> Git(12, 12, "clean", FALSE)]

\* _review_one: no call of the provider for a repository that was not cloned
_review_one(sub, meta, static, resp) ==
    IF ~meta.clone_success
    THEN CodeReviewResult(sub.team_number, FALSE, Some("repo_not_cloned"),
                          <<>>, <<>>)
    ELSE CodeReviewResult(sub.team_number, resp.success, resp.error,
                          resp.review_text, resp.scores)

\* video_downloads.get(team_number, VideoDownloadResult()): every fifth
\* team has no downloaded video
video_downloads(t) ==
    IF t % 5 = 0 THEN Download(FALSE, 0) ELSE Download(TRUE, 120)

\* _analyze_one: no call of the provider without a downloaded video
_analyze_one(sub, download, resp) ==
    IF ~download.success
    THEN VideoAnalysisResult(sub.team_number, download, FALSE,
                             Some("video_not_available"), <<>>, <<>>)
    ELSE VideoAnalysisResult(sub.team_number, download, resp.success,
                             resp.error, resp.review_text, resp.scores)

\* json.dump([r.model_dump(mode="json") for r in results], f, indent=2,
\* ensure_ascii=False) into a file opened with encoding="utf-8"
_save_reviews(list) ==
    [k \in 1..Len(list) |-> [list[k] EXCEPT !.review_text = Utf8Encode(@)]]

\* the same in video_analysis.py
_save_analysis(list) ==
    [k \in 1..Len(list) |-> [list[k] EXCEPT !.review_text = Utf8Encode(@)]]

\* json.load of a file opened without encoding=, then one result object
\* per entry: the list read, or ok = FALSE for UnicodeDecodeError
_load_reviews_file(enc, content) ==
    IF \E k \in 1..Len(content) : Decode(enc, content[k].review_text) = None
    THEN [ok |-> FALSE, value |-> <<>>]
    ELSE [ok |-> TRUE,
          value |-> [k \in 1..Len(content) |->
              [content[k] EXCEPT
                  !.review_text = Decode(enc, content[k].review_text)[1]]]]

\* the same in video_analysis.py
_load_analysis_file(enc, content) ==
    IF \E k \in 1..Len(content) : Decode(enc, content[k].review_text) = None
    THEN [ok |-> FALSE, value |-> <<>>]
    ELSE [ok |-> TRUE,
          value |-> [k \in 1..Len(content) |->
              [content[k] EXCEPT
                  !.review_text = Decode(enc, content[k].review_text)[1]]]]

\* {r.team_number: r for r in list}
ByTeam(list) ==
    [t \in {list[k].team_number : k \in 1..Len(list)} |->
        MapGet(list, t)[1]]

RECURSIVE OrderedUpTo(_, _, _)
\* [map[s.team_number] for s in subs[:n] if s.team_number in map]
OrderedUpTo(map, subs, n) ==
    IF n = 0 THEN <<>>
    ELSE OrderedUpTo(map, subs, n - 1)
         \o (IF subs[n].team_number \in DOMAIN map
             THEN <<map[subs[n].team_number]>> ELSE <<>>)

\* _save_results_map that lists only the results of this call
SaveResultsMapWithoutCarried(map, subs) ==
    _save_reviews(OrderedUpTo(
        [t \in DOMAIN map \ DOMAIN existing |-> map[t]], subs, Len(subs)))

\* _save_results_map: what it writes
_save_results_map(map, subs) ==
    _save_reviews(OrderedUpTo(map, subs, Len(subs)))

\* _save_analysis_map: what it writes
_save_analysis_map(map, subs) ==
    _save_analysis(OrderedUpTo(map, subs, Len(subs)))

\* results_map[team_num] = result
Put(map, t, r) ==
    [x \in DOMAIN map \cup {t} |-> IF x = t THEN r ELSE map[x]]

\* the team numbers of the submissions
Teams == {submissions[i].team_number : i \in 1..Len(submissions)}

\* the loop over the submissions that fills results_map and work, given
\* the dict read from the file and the teams that lack metadata or a
\* static analysis
Carried(ex) ==
    {t \in Teams : resume /\ t \in DOMAIN ex /\ Succeeded(ex[t])}

MissingData ==
    {t \in Teams : MapGet(repo_metadata, t) = None
                   \/ MapGet(static_results, t) = None}

\* run_code_review up to the pool: the file is read when resume is on and
\* it exists, successful saved results are carried over, submissions
\* without metadata or static analysis get error "missing_data", and the
\* rest is work
RunCodeReviewBegin ==
    /\ stage = "code_review"
    /\ lpc = "start"
    /\ \E enc \in Encodings :
          LET file == IF resume /\ out_file # None
                      THEN _load_reviews_file(enc, out_file[1])
                      ELSE [ok |-> TRUE, value |-> <<>>]
              ex == ByTeam(file.value)
              todo == (Teams \ Carried(ex)) \ MissingData
          IN  IF ~file.ok
              THEN /\ lpc' = "failed"
                   /\ UNCHANGED <<existing, results_map, work, pending>>
              ELSE /\ lpc' = "pool"
                   /\ existing' = ex
                   /\ results_map' =
                         [t \in Carried(ex) \cup (MissingData \ Carried(ex)) |->
                             IF t \in Carried(ex) THEN ex[t]
                             ELSE CodeReviewResult(t, FALSE,
                                      Some("missing_data"), <<>>, <<>>)]
                   /\ work' = SelectSeq(submissions,
                                        LAMBDA s : s.team_number \in todo)
                   /\ pending' = todo
    /\ UNCHANGED <<inputs, pc, scores, returned, scores_json, writes, rounded,
                   previous, loaded, log_calls, stage, resume, out_file,
                   saved, completed, sent, results, saves>>

\* as_completed yields the future of some team of work: its result enters
\* results_map, and every 10th completion saves what results_map holds
CodeReviewCollect ==
    /\ stage = "code_review"
    /\ lpc = "pool"
    /\ \E t \in pending :
          \E resp \in Responses(t, "depth", "anthropic") :
              LET sub == CHOOSE s \in {work[k] : k \in 1..Len(work)} :
                             s.team_number = t
                  result == _review_one(sub, MapGet(repo_metadata, t)[1],
                                        MapGet(static_results, t)[1], resp)
                  map == Put(results_map, t, result)
              IN  /\ results_map' = map
                  /\ pending' = pending \ {t}
                  /\ sent' = sent \cup {t}
                  /\ completed' = completed + 1
                  /\ IF (completed + 1) % SaveEvery = 0
                     THEN /\ out_file' = Some(_save_results_map(map, submissions))
                          /\ saves' = saves + 1
                     ELSE UNCHANGED <<out_file, saves>>
    /\ UNCHANGED <<inputs, pc, scores, returned, scores_json, writes, rounded,
                   previous, loaded, log_calls, stage, resume, saved, lpc,
                   existing, work, results>>

\* the pool is done: one result per submission in submission order, saved
\* and returned
RunCodeReviewFinish ==
    /\ stage = "code_review"
    /\ lpc = "pool"
    /\ pending = {}
    /\ LET list == [i \in 1..Len(submissions) |->
                      IF submissions[i].team_number \in DOMAIN results_map
                      THEN results_map[submissions[i].team_number]
                      ELSE CodeReviewResult(submissions[i].team_number, FALSE,
                                            None, <<>>, <<>>)]
       IN  /\ results' = Some(list)
           /\ out_file' = Some(_save_reviews(list))
    /\ saves' = saves + 1
    /\ lpc' = "done"
    /\ UNCHANGED <<inputs, pc, scores, returned, scores_json, writes, rounded,
                   previous, loaded, log_calls, stage, resume, saved,
                   existing, results_map, work, pending, completed, sent>>

\* run_video_analysis up to the pool: as run_code_review, without the
\* check for missing data
RunVideoAnalysisBegin ==
    /\ stage = "video_analysis"
    /\ lpc = "start"
    /\ \E enc \in Encodings :
          LET file == IF resume /\ out_file # None
                      THEN _load_analysis_file(enc, out_file[1])
                      ELSE [ok |-> TRUE, value |-> <<>>]
              ex == ByTeam(file.value)
              todo == Teams \ Carried(ex)
          IN  IF ~file.ok
              THEN /\ lpc' = "failed"
                   /\ UNCHANGED <<existing, results_map, work, pending>>
              ELSE /\ lpc' = "pool"
                   /\ existing' = ex
                   /\ results_map' = [t \in Carried(ex) |-> ex[t]]
                   /\ work' = SelectSeq(submissions,
                                        LAMBDA s : s.team_number \in todo)
                   /\ pending' = todo
    /\ UNCHANGED <<inputs, pc, scores, returned, scores_json, writes, rounded,
                   previous, loaded, log_calls, stage, resume, out_file,
                   saved, completed, sent, results, saves>>

VideoAnalysisCollect ==
    /\ stage = "video_analysis"
    /\ lpc = "pool"
    /\ \E t \in pending :
          \E resp \in Responses(t, "demo", "gemini") :
              LET sub == CHOOSE s \in {work[k] : k \in 1..Len(work)} :
                             s.team_number = t
                  result == _analyze_one(sub, video_downloads(t), resp)
                  map == Put(results_map, t, result)
              IN  /\ results_map' = map
                  /\ pending' = pending \ {t}
                  /\ sent' = sent \cup {t}
                  /\ completed' = completed + 1
                  /\ IF (completed + 1) % SaveEvery = 0
                     THEN /\ out_file' = Some(_save_analysis_map(map, submissions))
                          /\ saves' = saves + 1
                     ELSE UNCHANGED <<out_file, saves>>
    /\ UNCHANGED <<inputs, pc, scores, returned, scores_json, writes, rounded,
                   previous, loaded, log_calls, stage, resume, saved, lpc,
                   existing, work, results>>

RunVideoAnalysisFinish ==
    /\ stage = "video_analysis"
    /\ lpc = "pool"
    /\ pending = {}
    /\ LET list == [i \in 1..Len(submissions) |->
                      IF submissions[i].team_number \in DOMAIN results_map
                      THEN results_map[submissions[i].team_number]
                      ELSE VideoAnalysisResult(submissions[i].team_number,
                               Download(FALSE, 0), FALSE, None, <<>>, <<>>)]
       IN  /\ results' = Some(list)
           /\ out_file' = Some(_save_analysis(list))
    /\ saves' = saves + 1
    /\ lpc' = "done"
    /\ UNCHANGED <<inputs, pc, scores, returned, scores_json, writes, rounded,
                   previous, loaded, log_calls, stage, resume, saved,
                   existing, results_map, work, pending, completed, sent>>

NextStage ==
    \/ RunCodeReviewBegin
    \/ CodeReviewCollect
    \/ RunCodeReviewFinish
    \/ RunVideoAnalysisBegin
    \/ VideoAnalysisCollect
    \/ RunVideoAnalysisFinish

\* what an earlier call of the stage st left in its file: results of the
\* first teams only, as a run that was interrupted after a save leaves them
SavedBefore(st) ==
    LET ok(t, text) ==
            IF st = "code_review"
            THEN CodeReviewResult(t, TRUE, None, text,
                                  ProviderScores({"depth"}, 7, "anthropic"))
            ELSE VideoAnalysisResult(t, Download(TRUE, 120), TRUE, None, text,
                                     ProviderScores({"demo"}, 7, "gemini"))
        failed(t) ==
            IF st = "code_review"
            THEN CodeReviewResult(t, FALSE, Some("api_error"), <<>>, <<>>)
            ELSE VideoAnalysisResult(t, Download(TRUE, 120), FALSE,
                                     Some("api_error"), <<>>, <<>>)
    IN  { <<ok(1, ReviewTexts[1]), failed(2)>>,
          <<ok(1, ReviewTexts[2]), failed(2)>>,
          <<ok(1, ReviewTexts[3]), ok(2, ReviewTexts[1]), ok(3, ReviewTexts[1])>> }

\* one of these files, without text beyond ASCII
FirstSaved(st) ==
    CHOOSE list \in SavedBefore(st) : list[1].review_text = ReviewTexts[1]

\* the sizes of the batches
BatchSizes == {3, MaxBatch}

\* an LLM stage is about to be called: with or without resume, without a
\* file of its own on disk or with one an earlier call saved; for the
\* code review, team 3 may lack its static analysis, and the repository of
\* team 6 was not cloned
InitStage ==
    \E st \in {"code_review", "video_analysis"} :
      \E n \in BatchSizes :
        \E r \in BOOLEAN :
          \E before \in (IF r THEN Option(SavedBefore(st))
                          ELSE {None, Some(FirstSaved(st))}) :
            \E lacking \in (IF st = "code_review" THEN {{}, {3}} ELSE {{}}) :
                /\ cfg = Config(Some(Scoring(DefaultCriteria)))
                /\ submissions = [i \in 1..n |->
                                     Submission(i, TeamName(i), ProjectName, 200)]
                /\ repo_metadata = [i \in 1..n |-> StageMeta(i, i # 6)]
                /\ static_results =
                      SelectSeq([i \in 1..n |->
                                    Static(i, 5, {"tool_use"}, FALSE, RepoStructure)],
                                LAMBDA s : s.team_number \notin lacking)
                /\ code_reviews = <<>>
                /\ video_results = <<>>
                /\ pc = "start"
                /\ scores = <<>>
                /\ returned = None
                /\ scores_json = None
                /\ writes = 0
                /\ rounded = {}
                /\ previous = None
                /\ loaded = None
                /\ log_calls = <<>>
                /\ stage = st
                /\ resume = r
                /\ saved = IF before = None THEN <<>> ELSE before[1]
                /\ out_file = IF before = None THEN None
                              ELSE IF st = "code_review"
                                   THEN Some(_save_reviews(before[1]))
                                   ELSE Some(_save_analysis(before[1]))
                /\ lpc = "start"
                /\ existing = <<>>
                /\ results_map = <<>>
                /\ work = <<>>
                /\ pending = {}
                /\ completed = 0
                /\ sent = {}
                /\ results = None
                /\ saves = 0

SpecStage == InitStage /\ [][NextStage]_vars

----------------------------------------------------------------------------
(* What the claims speak about *)

\* the ProjectScore records computed so far
Scored == {scores[k] : k \in 1..Len(scores)}

SubOf(ps) ==
    CHOOSE sub \in {submissions[i] : i \in 1..Len(submissions)} :
        sub.team_number = ps.team_number

MetaOf(ps) == MapGet(repo_metadata, ps.team_number)

StaticOf(ps) == MapGet(static_results, ps.team_number)

ReviewOf(ps) == MapGet(code_reviews, ps.team_number)

VideoOf(ps) == MapGet(video_results, ps.team_number)

\* the evidence the estimators read: the record, or its default
MetaOrDefault(ps) ==
    IF MetaOf(ps) = None THEN RepoMetadata(ps.team_number) ELSE MetaOf(ps)[1]

StaticOrDefault(ps) ==
    IF StaticOf(ps) = None THEN StaticAnalysisResult(ps.team_number)
    ELSE StaticOf(ps)[1]

\* a successful code review carries a score for c
ReviewHas(ps, c) ==
    IF ReviewOf(ps) = None THEN FALSE
    ELSE ReviewOf(ps)[1].success /\ c \in DOMAIN ReviewOf(ps)[1].scores

\* a successful video analysis carries a "demo" score
VideoHasDemo(ps) ==
    IF VideoOf(ps) = None THEN FALSE
    ELSE VideoOf(ps)[1].analysis_success /\ "demo" \in DOMAIN VideoOf(ps)[1].scores

\* one decimal of the estimator of c on the evidence of ps (5.0 when c has
\* no estimator): the scores a heuristic fallback can store
HeuristicScores(ps, c) ==
    {[score |-> v, rationale |-> "", source |-> "heuristic"] :
        v \in Round1(HeuristicValue(c, SubOf(ps), MetaOrDefault(ps),
                                    StaticOrDefault(ps), VideoOf(ps)))}

FromReview(ps, c) ==
    [score |-> ReviewOf(ps)[1].scores[c].score, rationale |-> "",
     source |-> "llm_review"]

FromVideo(ps) ==
    [score |-> VideoOf(ps)[1].scores["demo"].score, rationale |-> "",
     source |-> "llm_review"]

----------------------------------------------------------------------------
(* C1: precedence of the merge *)

\* C1 as stated: for every configured criterion c, "demo" included, a
\* successful code review that carries c decides the merged score of c
\* (source "llm_review"); the video is consulted only after it.
C1_ReviewAlwaysFirst ==
    \A ps \in Scored : \A c \in DOMAIN ps.scores :
        ReviewHas(ps, c) => ps.scores[c] = FromReview(ps, c)

\* C1 amended: for every configured criterion other than "demo" a successful
\* code review that carries it decides the merged score; for "demo" a
\* successful video analysis that carries "demo" decides it, the code
\* review's "demo" score only when the video's is not available; the
\* heuristic is used exactly when neither applies.
C1_MergePrecedence ==
    \A ps \in Scored : \A c \in DOMAIN ps.scores :
        /\ (c # "demo" /\ ReviewHas(ps, c)) => ps.scores[c] = FromReview(ps, c)
        /\ (c = "demo" /\ VideoHasDemo(ps)) => ps.scores[c] = FromVideo(ps)
        /\ (c = "demo" /\ ~VideoHasDemo(ps) /\ ReviewHas(ps, c))
              => ps.scores[c] = FromReview(ps, c)
        /\ ps.scores[c].source = "heuristic"
              <=> ~(ReviewHas(ps, c) \/ (c = "demo" /\ VideoHasDemo(ps)))

\* a scored submission whose code review and video analysis both carry a
\* "demo" score, two different ones, and the merge took the video's
C1_Witness ==
    \E ps \in Scored :
        /\ "demo" \in DOMAIN ps.scores
        /\ ReviewHas(ps, "demo") /\ VideoHasDemo(ps)
        /\ FromReview(ps, "demo") # FromVideo(ps)
        /\ ps.scores["demo"] = FromVideo(ps)

----------------------------------------------------------------------------
(* C2: LLM precedence for "depth" *)

\* C2: when a successful code review carries a "depth" score, the merged
\* "depth" score is that score with source "llm_review", whatever the
\* repository metadata, static analysis and video record are.
C2_DepthFromReview ==
    \A ps \in Scored :
        ("depth" \in DOMAIN ps.scores /\ ReviewHas(ps, "depth"))
            => /\ ps.scores["depth"].score = ReviewOf(ps)[1].scores["depth"].score
               /\ ps.scores["depth"].source = "llm_review"

\* the code review's "depth" score was stored although the depth estimator
\* gives another value on the evidence present
C2_Witness ==
    \E ps \in Scored :
        /\ "depth" \in DOMAIN ps.scores /\ ReviewHas(ps, "depth")
        /\ MetaOf(ps) # None /\ StaticOf(ps) # None /\ VideoOf(ps) # None
        /\ ps.scores["depth"] \notin HeuristicScores(ps, "depth")
        /\ ps.scores["depth"].score \notin
              {h.score : h \in HeuristicScores(ps, "depth")}

----------------------------------------------------------------------------
(* C3: heuristic fallback *)

NoSuccessfulReview(ps) ==
    IF ReviewOf(ps) = None THEN TRUE ELSE ~ReviewOf(ps)[1].success

\* C3 as stated: for any configured criterion, when the code review is
\* absent or failed, the merged score has source "heuristic" and is the
\* estimator's output rounded to one decimal.
C3_AlwaysHeuristic ==
    \A ps \in Scored : \A c \in DOMAIN ps.scores :
        NoSuccessfulReview(ps) => ps.scores[c] \in HeuristicScores(ps, c)

\* C3 amended: when the code review is absent or failed, the merged score
\* of every configured criterion has source "heuristic" and is the
\* estimator's output rounded to one decimal (5.0 for a criterion without
\* estimator), even if the failed review carries scores -- except for
\* "demo" when a successful video analysis carries a "demo" score, which is
\* then the merged score, with source "llm_review".
C3_HeuristicFallback ==
    \A ps \in Scored : \A c \in DOMAIN ps.scores :
        NoSuccessfulReview(ps) =>
            IF c = "demo" /\ VideoHasDemo(ps)
            THEN ps.scores[c] = FromVideo(ps)
            ELSE ps.scores[c] \in HeuristicScores(ps, c)

\* a failed code review that still carries a "depth" score differing from
\* the estimate, and the estimate was stored
C3_Witness ==
    \E ps \in Scored :
        /\ "depth" \in DOMAIN ps.scores
        /\ ReviewOf(ps) # None /\ NoSuccessfulReview(ps)
        /\ MetaOf(ps) # None
        /\ "depth" \in DOMAIN ReviewOf(ps)[1].scores
        /\ ReviewOf(ps)[1].scores["depth"].score # ps.scores["depth"].score
        /\ ps.scores["depth"].source = "heuristic"
        /\ ps.scores["depth"].score > 100

----------------------------------------------------------------------------
(* C4: what the video's scores can change *)

\* other score mappings a video record could carry
OtherVideoScores ==
    { <<>>,
      ProviderScores({"demo"}, 9, "gemini"),
      ProviderScores({"impact", "ai_use", "depth", "novelty"}, 9, "gemini"),
      ProviderScores({"demo", "impact", "depth"}, 2, "gemini") }

\* alt says about "demo" what sc says
SameDemo(sc, alt) ==
    /\ "demo" \in DOMAIN alt <=> "demo" \in DOMAIN sc
    /\ "demo" \in DOMAIN alt => alt["demo"] = sc["demo"]

\* C4: the scores of a video record change a merged score only for the
\* criterion "demo", only if analysis_success is true, and only through
\* the key "demo": with the video's scores replaced by any others that
\* differ under other keys, or replaced at will for a criterion other than
\* "demo" or for a record with analysis_success = false, every merged score
\* is the same.
C4_VideoOnlyDemo ==
    \A ps \in Scored : \A c \in DOMAIN ps.scores : \A alt \in OtherVideoScores :
        IF VideoOf(ps) = None THEN TRUE
        ELSE (\/ c # "demo"
              \/ ~VideoOf(ps)[1].analysis_success
              \/ SameDemo(VideoOf(ps)[1].scores, alt))
             => ps.scores[c] \in
                   MergedScore(c, SubOf(ps), MetaOrDefault(ps), StaticOrDefault(ps),
                               ReviewOf(ps),
                               Some([VideoOf(ps)[1] EXCEPT !.scores = alt]))

\* a successful video analysis carries an "impact" score and the merged
\* "impact" is the estimator's, another value
C4_Witness ==
    \E ps \in Scored :
        /\ "impact" \in DOMAIN ps.scores
        /\ VideoOf(ps) # None
        /\ VideoOf(ps)[1].analysis_success
        /\ "impact" \in DOMAIN VideoOf(ps)[1].scores
        /\ ps.scores["impact"].source = "heuristic"
        /\ ps.scores["impact"].score # VideoOf(ps)[1].scores["impact"].score

----------------------------------------------------------------------------
(* C5: no evidence at all *)

NoEvidence(ps) ==
    /\ MetaOf(ps) = None /\ StaticOf(ps) = None
    /\ ReviewOf(ps) = None /\ VideoOf(ps) = None

\* C5: a submission without repo metadata, static analysis, code review and
\* video analysis, scored against a non-empty criteria configuration, gets
\* a ProjectScore (the call yields a result) in which every configured
\* criterion has a score with source "heuristic".
C5_EmptyEvidence ==
    /\ (pc = "loop" /\ Len(scores) < Len(submissions))
          => ScoreOf(Len(scores) + 1) # {}
    /\ \A ps \in Scored :
          NoEvidence(ps) =>
              /\ DOMAIN ps.scores = DOMAIN cfg.scoring[1].criteria
              /\ \A c \in DOMAIN ps.scores : ps.scores[c].source = "heuristic"

\* a submission without any evidence was scored on the four default criteria
C5_Witness ==
    \E ps \in Scored :
        /\ NoEvidence(ps)
        /\ DOMAIN ps.scores = {"impact", "ai_use", "depth", "demo"}

----------------------------------------------------------------------------
(* C6: range of the scores *)

\* C6: every score of every ProjectScore run_scoring computes lies in
\* [1.0, 10.0], whether it comes from the code review, the video analysis,
\* an estimator or the 5.0 default.
C6_ScoreRange ==
    \A ps \in Scored : \A c \in DOMAIN ps.scores :
        100 <= ps.scores[c].score /\ ps.scores[c].score <= 1000

\* one ProjectScore holds a 10.0 reported by a provider for an out-of-range
\* answer, an estimate at the 1.0 floor, and the list was returned
C6_Witness ==
    /\ returned # None
    /\ \E ps \in Scored : \E c1, c2 \in DOMAIN ps.scores :
          /\ ps.scores[c1] = [score |-> 1000, rationale |-> "", source |-> "llm_review"]
          /\ ps.scores[c2] = [score |-> 100, rationale |-> "", source |-> "heuristic"]

----------------------------------------------------------------------------
(* C7, C8: the weighted total *)

CriterionNames == {"impact", "ai_use", "depth", "demo", "novelty"}

Criteria == IF cfg.scoring = None THEN <<>> ELSE cfg.scoring[1].criteria

\* score x weight of c in 1/100000, 0 when c is not configured or not scored
Term(ps, c) ==
    IF c \in DOMAIN Criteria /\ c \in DOMAIN ps.scores
    THEN ps.scores[c].score * Criteria[c].weight
    ELSE 0

ExactTotal(ps) ==
    Term(ps, "impact") + Term(ps, "ai_use") + Term(ps, "depth")
    + Term(ps, "demo") + Term(ps, "novelty")

WeightOf(c) == IF c \in DOMAIN Criteria THEN Criteria[c].weight ELSE 0

\* the sum of the configured weights, in thousandths
SumOfWeights ==
    WeightOf("impact") + WeightOf("ai_use") + WeightOf("depth")
    + WeightOf("demo") + WeightOf("novelty")

\* C7: weighted_total is the sum of score x weight over the criteria that
\* are both configured and scored, rounded to 2 decimals (a multiple of 0.01
\* nearest to the sum); a configured criterion without a score adds 0.
C7_WeightedTotal ==
    /\ DOMAIN Criteria \subseteq CriterionNames
    /\ \A ps \in Scored :
          /\ 2 * (1000 * ps.weighted_total - ExactTotal(ps)) <= 1000
          /\ 2 * (ExactTotal(ps) - 1000 * ps.weighted_total) <= 1000

\* two criteria were summed and the sum had to be rounded up
C7_Witness ==
    \E ps \in Scored :
        /\ Cardinality(DOMAIN ps.scores) >= 2
        /\ ExactTotal(ps) % 1000 > 500
        /\ 1000 * ps.weighted_total > ExactTotal(ps)

\* C8 as stated: the rounded weighted_total lies between 1.0 x (sum of the
\* weights) and 10 x (sum of the weights).
C8_BoundsExact ==
    \A ps \in Scored :
        ps.scores # <<>> =>
            /\ 1000 * ps.weighted_total >= 100 * SumOfWeights
            /\ 1000 * ps.weighted_total <= 1000 * SumOfWeights

\* C8 amended: the rounded weighted_total lies between 1.0 x (sum of the
\* weights) - 0.005 and 10 x (sum of the weights) + 0.005: the bounds hold
\* for the exact sum, and rounding to 2 decimals moves it by at most 0.005.
C8_BoundsRounded ==
    \A ps \in Scored :
        ps.scores # <<>> =>
            /\ 1000 * ps.weighted_total >= 100 * SumOfWeights - 500
            /\ 1000 * ps.weighted_total <= 1000 * SumOfWeights + 500

\* a total below the sum of the weights: 1.0 x 0.125 rounded to 0.12
C8_Witness ==
    \E ps \in Scored :
        /\ ps.scores # <<>>
        /\ SumOfWeights > 0
        /\ 1000 * ps.weighted_total = 100 * SumOfWeights - 500

----------------------------------------------------------------------------
(* C9, C10: the list run_scoring returns *)

\* position of the submission of team t in the input list
Position(t) ==
    CHOOSE i \in 1..Len(submissions) : submissions[i].team_number = t

\* C9: the returned list is in descending order of weighted_total, and two
\* submissions of equal weighted_total are in the order of the input list.
C9_SortedStable ==
    returned # None =>
        \A i, j \in 1..Len(returned[1]) :
            i < j =>
                /\ returned[1][i].weighted_total >= returned[1][j].weighted_total
                /\ returned[1][i].weighted_total = returned[1][j].weighted_total
                      => Position(returned[1][i].team_number)
                            < Position(returned[1][j].team_number)

\* a returned list of three in which the sort moved a later submission
\* ahead and two submissions tie
C9_Witness ==
    /\ returned # None
    /\ Len(returned[1]) >= 3
    /\ \E i, j \in 1..Len(returned[1]) :
          /\ i < j
          /\ returned[1][i].weighted_total = returned[1][j].weighted_total
    /\ \E i, j \in 1..Len(returned[1]) :
          /\ i < j
          /\ returned[1][i].weighted_total > returned[1][j].weighted_total
          /\ returned[1][i].team_number > returned[1][j].team_number

\* C10: with a non-empty criteria configuration the returned list holds
\* exactly one ProjectScore per input submission: as many records as
\* submissions, and every submission's team number exactly once.
C10_OnePerSubmission ==
    (returned # None /\ ~ScoringDisabled(cfg)) =>
        /\ Len(returned[1]) = Len(submissions)
        /\ \A n \in 1..Len(submissions) :
              Cardinality({k \in 1..Len(returned[1]) :
                  returned[1][k].team_number = submissions[n].team_number}) = 1

\* three submissions were returned, one of them without any evidence and
\* two of them with equal totals
C10_Witness ==
    /\ returned # None /\ ~ScoringDisabled(cfg)
    /\ Len(returned[1]) >= 3
    /\ \E k \in 1..Len(returned[1]) : NoEvidence(returned[1][k])
    /\ \E i, j \in 1..Len(returned[1]) :
          i # j /\ returned[1][i].weighted_total = returned[1][j].weighted_total

----------------------------------------------------------------------------
(* C11, C12: scoring without criteria *)

\* C11: when the criteria configuration is absent (cfg.scoring is None) or
\* empty, run_scoring scores nothing and writes nothing, and the call ends
\* by returning the empty list, whatever the submissions and the evidence.
C11_DisabledReturnsEmpty ==
    /\ pc = "done" <=> returned # None
    /\ DOMAIN Criteria = {} =>
          /\ pc \in {"start", "done"}
          /\ scores = <<>> /\ scores_json = None /\ writes = 0
          /\ returned # None => returned[1] = <<>>

\* a run over two submissions or more, with code reviews, under a
\* configuration whose criteria mapping is empty, returned the empty list
C11_Witness ==
    /\ cfg.scoring # None
    /\ DOMAIN Criteria = {}
    /\ Len(submissions) >= 2 /\ code_reviews # <<>>
    /\ returned = Some(<<>>)

\* C12 as stated: a scoring run leaves a ProjectScore for every submission,
\* so the lookup by team number finds one; without criteria it is the
\* record with empty scores and weighted_total = 0.
C12_RecordForEverySubmission ==
    returned # None =>
        \A i \in 1..Len(submissions) :
            LET found == MapGet(returned[1], submissions[i].team_number)
            IN  IF found = None THEN FALSE
                ELSE DOMAIN Criteria = {} =>
                        /\ found[1].scores = <<>>
                        /\ found[1].weighted_total = 0

\* C12 amended: _score_one gives every submission a ProjectScore, the one
\* with empty scores and weighted_total = 0 when there are no criteria; a
\* scoring run with criteria returns a record for every submission, and a
\* scoring run without criteria returns none, so that the lookup by team
\* number finds no record for any submission.
C12_RecordUnlessDisabled ==
    /\ DOMAIN Criteria = {} =>
          \A i \in 1..Len(submissions) : \A ps \in ScoreOf(i) :
              /\ ps.team_number = submissions[i].team_number
              /\ ps.scores = <<>> /\ ps.weighted_total = 0
    /\ returned # None =>
          \A i \in 1..Len(submissions) :
              MapGet(returned[1], submissions[i].team_number) = None
                  <=> DOMAIN Criteria = {}

\* a run without criteria over three submissions has returned, and the
\* lookup of the first team finds nothing
C12_Witness ==
    /\ DOMAIN Criteria = {}
    /\ returned # None
    /\ Len(submissions) >= 3
    /\ MapGet(returned[1], submissions[1].team_number) = None

----------------------------------------------------------------------------
(* C13: determinism *)

\* the record the call before returned for team t
PreviousOf(t) == MapGet(previous[1].returned, t)

----------------------------------------------------------------------------
(* C14: provenance *)

\* the score of c was copied from a code-review or video-analysis record
Copied(ps, c) ==
    IF ReviewHas(ps, c) THEN TRUE ELSE c = "demo" /\ VideoHasDemo(ps)

\* the scores the records of ps hold for c
RecordScores(ps, c) ==
    (IF ReviewHas(ps, c) THEN {ReviewOf(ps)[1].scores[c].score} ELSE {})
    \cup (IF c = "demo" /\ VideoHasDemo(ps)
          THEN {VideoOf(ps)[1].scores["demo"].score} ELSE {})

\* C14: a merged score has source "llm_review" exactly when its value was
\* copied from a code-review or video-analysis record, and source
\* "heuristic" exactly when it was computed by an estimator or is the 5.0
\* default; no merged score keeps the default "automated" or the name of
\* the provider the upstream record carries.
C14_TruthfulProvenance ==
    \A ps \in Scored : \A c \in DOMAIN ps.scores :
        /\ ps.scores[c].source \in {"llm_review", "heuristic"}
        /\ ps.scores[c].source = "llm_review" <=> Copied(ps, c)
        /\ Copied(ps, c) => ps.scores[c].score \in RecordScores(ps, c)
        /\ ~Copied(ps, c) =>
              ps.scores[c].score \in {h.score : h \in HeuristicScores(ps, c)}

\* one ProjectScore holds a score copied from a record whose source is the
\* provider's name, an estimate and a 5.0 default
C14_Witness ==
    \E ps \in Scored : \E c1, c2 \in DOMAIN ps.scores :
        /\ ps.scores[c1].source = "llm_review"
        /\ ReviewHas(ps, c1)
        /\ ReviewOf(ps)[1].scores[c1].source = "gemini"
        /\ ps.scores[c2].source = "heuristic"
        /\ c2 \notin HeuristicNames
        /\ ps.scores[c2].score = 500

----------------------------------------------------------------------------
(* C15: the rationale *)

\* the justification text of the record the score of c was taken from: the
\* entry's rationale, or the review text of the record when it has none
Justification(ps, c) ==
    LET record == IF c = "demo" /\ VideoHasDemo(ps) THEN VideoOf(ps)[1]
                  ELSE ReviewOf(ps)[1]
    IN  IF record.scores[c].rationale # "" THEN record.scores[c].rationale
        ELSE record.review_text

\* C15 as stated: a merged score with source "llm_review" carries as its
\* rationale the justification text of the record it was taken from; one
\* with source "heuristic" has an empty rationale.
C15_RationaleCarried ==
    \A ps \in Scored : \A c \in DOMAIN ps.scores :
        IF ps.scores[c].source = "llm_review"
        THEN ps.scores[c].rationale = Justification(ps, c)
        ELSE ps.scores[c].rationale = ""

\* C15 amended: the rationale of every merged score is empty, with source
\* "llm_review" as with source "heuristic": _score_one copies the number
\* only, and the text of the review stays in the upstream record.
C15_RationaleEmpty ==
    \A ps \in Scored : \A c \in DOMAIN ps.scores :
        ps.scores[c].rationale = ""

\* a score taken from a review that has a text, stored without rationale
C15_Witness ==
    \E ps \in Scored : \E c \in DOMAIN ps.scores :
        /\ ps.scores[c].source = "llm_review"
        /\ Copied(ps, c)
        /\ Justification(ps, c) # ""
        /\ ps.scores[c].rationale = ""

----------------------------------------------------------------------------
(* C16: a criterion without estimator *)

\* the configuration c without the criterion name
Without(c, name) ==
    Config(Some(Scoring([d \in DOMAIN c.scoring[1].criteria \ {name} |->
                            c.scoring[1].criteria[d]])))

\* C16: a configured criterion that is none of "impact", "ai_use", "depth",
\* "demo" and has no LLM score gets exactly 5.0 with source "heuristic";
\* the call still yields a ProjectScore, and the scores of the other
\* criteria are those of a call without the unknown criterion.
C16_UnknownCriterion ==
    /\ (pc = "loop" /\ Len(scores) < Len(submissions))
          => \E s \in ScoreOf(Len(scores) + 1) :
                DOMAIN s.scores = DOMAIN Criteria
    /\ \A ps \in Scored : \A c \in DOMAIN ps.scores \ HeuristicNames :
          ~Copied(ps, c) =>
              /\ ps.scores[c] =
                    [score |-> 500, rationale |-> "", source |-> "heuristic"]
              /\ \E r \in _score_one(SubOf(ps), MetaOf(ps), StaticOf(ps),
                                      ReviewOf(ps), VideoOf(ps), Without(cfg, c)) :
                    /\ DOMAIN r.scores = DOMAIN ps.scores \ {c}
                    /\ \A d \in DOMAIN r.scores : r.scores[d] = ps.scores[d]

\* "novelty" got the 5.0 default next to an "impact" estimate that is not
\* 5.0, for a submission whose code review succeeded without "novelty"
C16_Witness ==
    \E ps \in Scored :
        /\ DOMAIN ps.scores = {"impact", "novelty"}
        /\ ReviewOf(ps) # None
        /\ ReviewOf(ps)[1].success
        /\ ~Copied(ps, "novelty")
        /\ ps.scores["novelty"].score = 500
        /\ ps.scores["impact"].source = "heuristic"
        /\ ps.scores["impact"].score # 500

----------------------------------------------------------------------------
(* C17: the worked example *)

\* the evidence of the example: a successful code review reporting impact
\* 7, depth 6, ai_use 8 and no demo; a successful video analysis reporting
\* demo 5
ExampleEvidence(ps) ==
    IF ReviewOf(ps) = None THEN FALSE
    ELSE IF VideoOf(ps) = None THEN FALSE
    ELSE /\ ReviewOf(ps)[1].success
         /\ DOMAIN ReviewOf(ps)[1].scores = {"impact", "depth", "ai_use"}
         /\ ReviewOf(ps)[1].scores["impact"].score = 700
         /\ ReviewOf(ps)[1].scores["depth"].score = 600
         /\ ReviewOf(ps)[1].scores["ai_use"].score = 800
         /\ VideoOf(ps)[1].analysis_success
         /\ DOMAIN VideoOf(ps)[1].scores = {"demo"}
         /\ VideoOf(ps)[1].scores["demo"].score = 500

\* the criteria of the example: impact 0.25, depth 0.20, demo 0.30,
\* ai_use 0.25
ExampleCriteria ==
    /\ DOMAIN Criteria = {"impact", "depth", "demo", "ai_use"}
    /\ Criteria["impact"].weight = 250 /\ Criteria["depth"].weight = 200
    /\ Criteria["demo"].weight = 300 /\ Criteria["ai_use"].weight = 250

\* C17: on the evidence and the criteria of the example _score_one yields
\* impact 7, depth 6, ai_use 8, demo 5, all with source "llm_review", and
\* weighted_total 6.45.
C17_WorkedExample ==
    \A ps \in Scored :
        (ExampleEvidence(ps) /\ ExampleCriteria) =>
            /\ DOMAIN ps.scores = {"impact", "depth", "demo", "ai_use"}
            /\ ps.scores["impact"].score = 700
            /\ ps.scores["depth"].score = 600
            /\ ps.scores["ai_use"].score = 800
            /\ ps.scores["demo"].score = 500
            /\ \A c \in DOMAIN ps.scores : ps.scores[c].source = "llm_review"
            /\ ps.weighted_total = 645

\* the example was scored, for a submission with repository metadata and
\* static analysis
C17_Witness ==
    \E ps \in Scored :
        /\ ExampleEvidence(ps) /\ ExampleCriteria
        /\ MetaOf(ps) # None /\ StaticOf(ps) # None
        /\ ps.weighted_total = 645

----------------------------------------------------------------------------
(* C18: the order of the submissions *)

\* the weighted totals of a list of ProjectScore records, in list order
Totals(list) == [k \in 1..Len(list) |-> list[k].weighted_total]

\* C18: run_scoring on the same submissions in another order gives every
\* team the same ProjectScore, and the same ranked list up to the order of
\* the records of equal total: the same totals at the same ranks.
C18_OrderIndependent ==
    (previous # None /\ returned # None) =>
        /\ Len(returned[1]) = Len(previous[1].returned)
        /\ \A i \in 1..Len(submissions) :
              MapGet(returned[1], submissions[i].team_number)
                  = PreviousOf(submissions[i].team_number)
        /\ Totals(returned[1]) = Totals(previous[1].returned)

\* the second run scored the submissions in another order; two of them
\* tie, and the two ranked lists differ in the order of the tie only
C18_Witness ==
    /\ previous # None /\ returned # None
    /\ submissions # previous[1].submissions
    /\ Len(returned[1]) >= 2
    /\ returned[1] # previous[1].returned
    /\ \E k \in 1..Len(returned[1]) : returned[1][k].scores # <<>>

----------------------------------------------------------------------------
(* C19: no resume *)

\* C19: every record run_scoring computes and returns is what _score_one
\* gives on the arguments of the call, one per submission, whatever
\* scores.json held when the call began -- nothing, the list of another
\* run, or the list of the call before; and what load_scores read is never
\* what a run returns.
C19_AlwaysRecomputed ==
    /\ \A ps \in Scored :
          ps \in _score_one(SubOf(ps), MetaOf(ps), StaticOf(ps), ReviewOf(ps),
                            VideoOf(ps), cfg)
    /\ returned # None =>
          IF DOMAIN Criteria = {} THEN returned[1] = <<>>
          ELSE /\ Len(returned[1]) = Len(submissions)
               /\ \A k \in 1..Len(returned[1]) : returned[1][k] \in Scored

\* a first run has scored team 1 anew although scores.json held a record
\* of team 1 from another run
C19_Witness ==
    /\ previous = None
    /\ scores_json = Some(StaleScores)
    /\ pc = "loop"
    /\ Len(scores) = Len(submissions)
    /\ \E ps \in Scored :
          /\ ps.team_number = StaleScores[1].team_number
          /\ ps.scores # <<>>
          /\ ps.weighted_total # StaleScores[1].weighted_total

----------------------------------------------------------------------------
(* C20: scores.json *)

\* C20: with criteria configured, run_scoring writes scores.json exactly
\* once per call, when every submission is scored and the list sorted; the
\* file then holds the returned list, complete and in the returned order,
\* and a following load_scores yields records equal to the returned ones.
C20_WrittenOnceAndReloadable ==
    DOMAIN Criteria # {} =>
        /\ writes = (IF pc = "done" THEN 1 ELSE 0)
        /\ pc = "done" =>
              /\ scores_json # None
              /\ Len(scores_json[1]) = Len(returned[1])
              /\ \A k \in 1..Len(returned[1]) :
                    /\ scores_json[1][k].team_number = returned[1][k].team_number
                    /\ scores_json[1][k].scores = returned[1][k].scores
                    /\ scores_json[1][k].weighted_total
                          = returned[1][k].weighted_total
        /\ loaded # None =>
              /\ loaded[1].ok
              /\ loaded[1].value = returned[1]

----------------------------------------------------------------------------
(* C21, C22, C23: the estimators *)

\* the submissions of the batch
Subs == {submissions[k] : k \in 1..Len(submissions)}

\* the bonus of the AI-use estimate for a set of patterns, in 1/10000
AiUseBonus(patterns) ==
    (IF "extended_thinking" \in patterns THEN 4000 ELSE 0)
    + (IF "mcp_server" \in patterns THEN 3000 ELSE 0)
    + (IF "agentic_pattern" \in patterns THEN 3000 ELSE 0)
    + (IF \E p \in {"anthropic_sdk", "openai_sdk", "gemini_sdk"} : p \in patterns
       THEN 3000 ELSE 0)
    + (IF "tool_use" \in patterns THEN 2000 ELSE 0)

\* 1 + logScale(raw, 60) x 7 + bonus before the clamp, in 1/10000
AiUseUnclamped(static) ==
    10000 + ((70000 * (static.integration_score + 1))
                \div (static.integration_score + 62))
    + AiUseBonus(static.integration_patterns)

\* pattern sets a record with integration_score = 0 could carry
SomePatternSets ==
    {{}, {"tool_use"}, {"gemini_sdk"}, {"extended_thinking", "mcp_server"},
     AllPatterns}

\* C21: _heuristic_ai_use returns exactly 1.0 when integration_score is 0,
\* whatever patterns the record carries; for a positive integration_score it
\* returns 1 + logScale(score, 60) x 7 plus 0.4 for extended_thinking, 0.3
\* for mcp_server, 0.3 for agentic_pattern, 0.3 once for any SDK and 0.2 for
\* tool_use, clamped to [1.0, 8.0]; the stored fallback is that value
\* rounded to one decimal.
C21_AiUseEstimate ==
    /\ \A sub \in Subs :
          LET static == StaticOrDefault(sub)
          IN  /\ \A pats \in SomePatternSets :
                    _heuristic_ai_use([static EXCEPT
                        !.integration_score = 0,
                        !.integration_patterns = pats]) = 10000
              /\ static.integration_score > 0 =>
                    /\ _heuristic_ai_use(static)
                          = Max(10000, Min(80000, AiUseUnclamped(static)))
                    /\ _heuristic_ai_use(static) >= 10000
                    /\ _heuristic_ai_use(static) <= 80000
    /\ \A ps \in Scored :
          ("ai_use" \in DOMAIN ps.scores
              /\ ps.scores["ai_use"].source = "heuristic")
          => ps.scores["ai_use"].score \in
                Round1(IF StaticOrDefault(ps).integration_score = 0 THEN 10000
                       ELSE Max(10000, Min(80000,
                                AiUseUnclamped(StaticOrDefault(ps)))))

\* the AI-use estimate of a record with two SDKs was stored with the SDK
\* bonus counted once (4.5 + 0.4 + 0.3 = 5.2), and elsewhere a sum above
\* 8.0 was stored as 8.0
C21_Witness ==
    \E ps \in Scored :
        /\ "ai_use" \in DOMAIN ps.scores
        /\ ps.scores["ai_use"].source = "heuristic"
        /\ StaticOf(ps) # None
        /\ \/ /\ Cardinality(StaticOf(ps)[1].integration_patterns
                                \cap {"anthropic_sdk", "openai_sdk",
                                      "gemini_sdk"}) = 2
              /\ StaticOf(ps)[1].integration_score = 60
              /\ ps.scores["ai_use"].score = 520
           \/ /\ AiUseUnclamped(StaticOf(ps)[1]) > 80000
              /\ ps.scores["ai_use"].score = 800

\* durations around the steps of the demo estimate, in seconds
StepDurations == {0, 29, 30, 59, 60, 200, 201}

\* the demo estimate the claim gives for a downloaded video of duration d
DemoOfDuration(d) ==
    IF d < 30 THEN 13000
    ELSE IF d < 60 THEN 20000
    ELSE IF d <= 200 THEN 35000
    ELSE 30000

\* C22: _heuristic_demo returns 1.0 when the video record is absent or its
\* download did not succeed; otherwise 1.3 for a duration below 30 s, 2.0
\* from 30 s to below 60 s, 3.5 from 60 s to 200 s inclusive, 3.0 above
\* 200 s; the result always lies in [1.0, 8.0], and the stored fallback is
\* that value.
C22_DemoEstimate ==
    /\ _heuristic_demo(None) = 10000
    /\ \A sub \in Subs :
          VideoOf(sub) # None =>
              LET video == VideoOf(sub)
                  dl    == video[1].download
              IN  /\ ~dl.success => _heuristic_demo(video) = 10000
                  /\ dl.success =>
                        _heuristic_demo(video) = DemoOfDuration(dl.duration_seconds)
                  /\ _heuristic_demo(video) >= 10000
                  /\ _heuristic_demo(video) <= 80000
                  /\ \A d \in StepDurations :
                        /\ _heuristic_demo(Some([video[1] EXCEPT
                              !.download = [success |-> TRUE,
                                            duration_seconds |-> d]]))
                              = DemoOfDuration(d)
                        /\ _heuristic_demo(Some([video[1] EXCEPT
                              !.download = [success |-> FALSE,
                                            duration_seconds |-> d]]))
                              = 10000
    /\ \A ps \in Scored :
          ("demo" \in DOMAIN ps.scores /\ ps.scores["demo"].source = "heuristic")
          => ps.scores["demo"].score =
                (IF VideoOf(ps) = None THEN 100
                 ELSE IF ~VideoOf(ps)[1].download.success THEN 100
                 ELSE DemoOfDuration(VideoOf(ps)[1].download.duration_seconds)
                         \div 100)

\* a video record whose download failed was estimated at 1.0, although the
\* record is there
C22_Witness ==
    \E ps \in Scored :
        /\ "demo" \in DOMAIN ps.scores
        /\ ps.scores["demo"].source = "heuristic"
        /\ VideoOf(ps) # None
        /\ ~VideoOf(ps)[1].download.success
        /\ ps.scores["demo"].score = 100

\* the positive terms of the depth estimate, in 1/10000
DepthCredit(meta, static) ==
    LET commits == IF meta.git_history.commits_during_hackathon # 0
                   THEN meta.git_history.commits_during_hackathon
                   ELSE meta.git_history.total_commits
        langs   == {l \in meta.files.languages :
                       l \notin {"Markdown", "JSON", "YAML", "TOML"}}
    IN  (IF commits <= 0 THEN 0 ELSE (25000 * (commits + 1)) \div (commits + 52))
        + (IF meta.files.total_loc <= 0 THEN 0
           ELSE (20000 * (meta.files.total_loc + 1))
                   \div (meta.files.total_loc + 10002))
        + (IF meta.files.has_tests THEN 10000 ELSE 0)
        + (IF static.structure.has_claude_md THEN 5000 ELSE 0)
        + (IF meta.files.has_readme THEN 5000 ELSE 0)
        + (IF Cardinality(langs) >= 3 THEN 5000 ELSE 0)
        + (IF static.structure.has_docker THEN 5000 ELSE 0)
        + (IF static.structure.has_ci THEN 5000 ELSE 0)
        + (IF meta.files.file_count <= 0 THEN 0
           ELSE (10000 * (meta.files.file_count + 1))
                   \div (meta.files.file_count + 52))

\* the penalties of the depth estimate, in 1/10000
DepthPenalty(meta, static) ==
    (IF meta.git_history.is_single_commit_dump THEN 20000 ELSE 0)
    + (IF static.is_boilerplate_heavy THEN 20000 ELSE 0)
    + (CASE meta.git_history.hackathon_period_flag = "pre_existing_project"
              -> 30000
         [] meta.git_history.hackathon_period_flag = "significant_prior_work"
              -> 15000
         [] OTHER -> 0)

\* the records that differ from (meta, static) by one more penalty flag
Penalised(meta, static) ==
    (IF meta.git_history.is_single_commit_dump THEN {}
     ELSE {<<[meta EXCEPT !.git_history.is_single_commit_dump = TRUE], static>>})
    \cup (IF static.is_boilerplate_heavy THEN {}
          ELSE {<<meta, [static EXCEPT !.is_boilerplate_heavy = TRUE]>>})
    \cup (IF meta.git_history.hackathon_period_flag
               \in {"pre_existing_project", "significant_prior_work"} THEN {}
          ELSE {<<[meta EXCEPT !.git_history.hackathon_period_flag = f], static>> :
                   f \in {"pre_existing_project", "significant_prior_work"}})

\* C23: the depth estimate is its positive terms minus 2.0 for a
\* single-commit dump, 2.0 for a boilerplate-heavy repository and 3.0 for
\* the flag PRE_EXISTING_PROJECT or 1.5 for SIGNIFICANT_PRIOR_WORK, clamped
\* to [1.0, 10.0]; setting one more penalty flag never increases it, and it
\* never goes below 1.0.  The stored fallback is that value rounded to one
\* decimal.
C23_DepthPenalties ==
    /\ \A sub \in Subs :
          LET meta   == MetaOrDefault(sub)
              static == StaticOrDefault(sub)
          IN  /\ _heuristic_depth(meta, static)
                    = Max(10000, Min(100000, DepthCredit(meta, static)
                                                - DepthPenalty(meta, static)))
              /\ _heuristic_depth(meta, static) >= 10000
              /\ \A v \in Penalised(meta, static) :
                    /\ _heuristic_depth(v[1], v[2]) <= _heuristic_depth(meta, static)
                    /\ _heuristic_depth(v[1], v[2]) >= 10000
    /\ \A ps \in Scored :
          ("depth" \in DOMAIN ps.scores /\ ps.scores["depth"].source = "heuristic")
          => ps.scores["depth"].score \in
                Round1(Max(10000, Min(100000,
                    DepthCredit(MetaOrDefault(ps), StaticOrDefault(ps))
                    - DepthPenalty(MetaOrDefault(ps), StaticOrDefault(ps)))))

\* a depth estimate was stored 1.5 below its positive terms for
\* SIGNIFICANT_PRIOR_WORK, above the floor
C23_Witness ==
    \E ps \in Scored :
        /\ "depth" \in DOMAIN ps.scores
        /\ ps.scores["depth"].source = "heuristic"
        /\ MetaOf(ps) # None
        /\ MetaOf(ps)[1].git_history.hackathon_period_flag
              = "significant_prior_work"
        /\ ps.scores["depth"].score > 100
        /\ ps.scores["depth"].score \in
              Round1(DepthCredit(MetaOrDefault(ps), StaticOrDefault(ps)) - 15000)

----------------------------------------------------------------------------
(* C24: _log_scale *)

----------------------------------------------------------------------------
(* C25: missing repository metadata, missing static analysis *)

\* C25: _score_one called without repository metadata gives the scores,
\* sources and weighted_total it gives with a default-constructed
\* RepoMetadata, and without static analysis those it gives with a
\* default-constructed StaticAnalysisResult; the call yields a result.
C25_DefaultsForMissing ==
    /\ \A k \in 1..Len(submissions) :
          LET sub == submissions[k]
              t   == sub.team_number
          IN  /\ ScoreOf(k) # {}
              /\ _score_one(sub, None, StaticOf(sub), ReviewOf(sub),
                            VideoOf(sub), cfg)
                    = _score_one(sub, Some(RepoMetadata(t)), StaticOf(sub),
                                 ReviewOf(sub), VideoOf(sub), cfg)
              /\ _score_one(sub, MetaOf(sub), None, ReviewOf(sub),
                            VideoOf(sub), cfg)
                    = _score_one(sub, MetaOf(sub),
                                 Some(StaticAnalysisResult(t)), ReviewOf(sub),
                                 VideoOf(sub), cfg)
    /\ \A ps \in Scored :
          ps \in _score_one(SubOf(ps), Some(MetaOrDefault(ps)),
                            Some(StaticOrDefault(ps)), ReviewOf(ps),
                            VideoOf(ps), cfg)

\* a submission without repository metadata, with a static analysis, was
\* scored on the four default criteria by the estimators, one above the floor
C25_Witness ==
    \E ps \in Scored :
        /\ MetaOf(ps) = None /\ StaticOf(ps) # None /\ ReviewOf(ps) = None
        /\ DOMAIN ps.scores = {"impact", "ai_use", "depth", "demo"}
        /\ ps.scores["depth"].source = "heuristic"
        /\ ps.scores["impact"].score > 100
        /\ ps \in _score_one(SubOf(ps), Some(RepoMetadata(ps.team_number)),
                             StaticOf(ps), None, VideoOf(ps), cfg)

----------------------------------------------------------------------------
(* C26: what _score_one does to a number *)

\* the score the records of ps hold for c, "demo" from the video first
Upstream(ps, c) ==
    IF c = "demo" /\ VideoHasDemo(ps) THEN VideoOf(ps)[1].scores["demo"].score
    ELSE ReviewOf(ps)[1].scores[c].score

\* score x weight of c in 1/100000, with the upstream score where there is one
UpstreamTerm(ps, c) ==
    IF c \in DOMAIN Criteria /\ c \in DOMAIN ps.scores
    THEN (IF Copied(ps, c) THEN Upstream(ps, c) ELSE ps.scores[c].score)
            * Criteria[c].weight
    ELSE 0

UpstreamTotal(ps) ==
    UpstreamTerm(ps, "impact") + UpstreamTerm(ps, "ai_use")
    + UpstreamTerm(ps, "depth") + UpstreamTerm(ps, "demo")
    + UpstreamTerm(ps, "novelty")

\* C26: a score taken from a code-review or video-analysis record is
\* stored as it is, neither clamped to [1, 10] nor rounded, and enters
\* weighted_total with that value; a score computed by an estimator is
\* rounded to one decimal before it is stored and weighted.
C26_LlmScoreVerbatim ==
    \A ps \in Scored :
        /\ \A c \in DOMAIN ps.scores :
              IF Copied(ps, c)
              THEN ps.scores[c].score = Upstream(ps, c)
              ELSE /\ ps.scores[c].score % 10 = 0
                   /\ ps.scores[c].score \in
                         {h.score : h \in HeuristicScores(ps, c)}
        /\ ps.scores # <<>> =>
              /\ 2 * (1000 * ps.weighted_total - UpstreamTotal(ps)) <= 1000
              /\ 2 * (UpstreamTotal(ps) - 1000 * ps.weighted_total) <= 1000

\* one ProjectScore holds the upstream 12.5 and 7.25 unchanged next to an
\* AI-use estimate of 1.8268 stored as 1.8, and its total counts them so
C26_Witness ==
    \E ps \in Scored :
        /\ DOMAIN ps.scores = {"impact", "ai_use", "depth", "demo"}
        /\ ps.scores["impact"].score = 1250
        /\ ps.scores["depth"].score = 725
        /\ ps.scores["ai_use"].source = "heuristic"
        /\ HeuristicValue("ai_use", SubOf(ps), MetaOrDefault(ps),
                          StaticOrDefault(ps), VideoOf(ps)) = 18268
        /\ ps.scores["ai_use"].score = 180
        /\ 1000 * ps.weighted_total
              >= 1250 * 250 + 725 * 200 + 180 * 250 + ps.scores["demo"].score * 300
                 - 500

----------------------------------------------------------------------------
(* C27: the keys of ProjectScore.scores *)

\* C27: under a non-empty criteria configuration the keys of the scores of
\* every ProjectScore are exactly the configured criteria: every configured
\* criterion has a score, and no key of the code review or of the video
\* analysis that is not configured gets one.
C27_KeysAreCriteria ==
    /\ DOMAIN Criteria # {} =>
          \A ps \in Scored : DOMAIN ps.scores = DOMAIN Criteria
    /\ (pc = "loop" /\ Len(scores) < Len(submissions)) =>
          \A s \in ScoreOf(Len(scores) + 1) : DOMAIN s.scores = DOMAIN Criteria

\* a submission was scored on "depth" alone although its successful code
\* review carries other keys as well
C27_Witness ==
    \E ps \in Scored :
        /\ DOMAIN Criteria = {"depth"}
        /\ DOMAIN ps.scores = {"depth"}
        /\ ReviewOf(ps) # None
        /\ ReviewOf(ps)[1].success
        /\ DOMAIN ReviewOf(ps)[1].scores \ {"depth"} # {}

----------------------------------------------------------------------------
(* C28: scores.json and a run without criteria *)

\* what load_scores gave is what the file on disk holds: nothing without a
\* file, and otherwise the records of the file, number for number, with the
\* names as the platform's encoding reads them
LoadedIsFile ==
    IF scores_json = None THEN loaded[1] = [ok |-> TRUE, value |-> <<>>]
    ELSE /\ \E enc \in Encodings : loaded[1] = ReadJson(enc, scores_json[1])
         /\ loaded[1].ok =>
               /\ Len(loaded[1].value) = Len(scores_json[1])
               /\ \A k \in 1..Len(scores_json[1]) :
                     /\ loaded[1].value[k].team_number
                           = scores_json[1][k].team_number
                     /\ loaded[1].value[k].scores = scores_json[1][k].scores
                     /\ loaded[1].value[k].weighted_total
                           = scores_json[1][k].weighted_total

----------------------------------------------------------------------------
(* C29, C30: the LLM stages *)

\* the position of team t in the submissions
PositionOf(t) ==
    CHOOSE i \in 1..Len(submissions) : submissions[i].team_number = t

\* the teams whose result the loaded file gave as successful
CarriedOver ==
    {t \in Teams : resume /\ t \in DOMAIN existing /\ Succeeded(existing[t])}

\* a result as it stands in the file
AsWritten(r) == [r EXCEPT !.review_text = Utf8Encode(@)]

\* C29: with resume on, a submission whose saved result is successful is
\* never sent to the provider and the stage returns its saved result
\* unchanged; a submission without a saved result, or with a failed one, is
\* processed again (or, lacking its metadata or static analysis, reported
\* as missing_data); with resume off this holds for every submission.
C29_ResumeSkipsSuccessful ==
    \A t \in Teams :
        LET before == MapGet(saved, t)
        IN  IF resume /\ before # None /\ Succeeded(before[1])
            THEN /\ t \notin sent
                 /\ results # None => MapGet(results[1], t) = before
            ELSE results # None => (t \in sent \/ t \in MissingData)

\* C30: whatever order the futures complete in, the returned list holds one
\* result per submission, in submission order, each the one results_map
\* holds; the file is written after every 10th completion and once at the
\* end, and what a write leaves on disk lists only results obtained so far,
\* in submission order, all of them, among them every successful result
\* carried over by resume.
C30_OrderUnderConcurrency ==
    /\ results # None =>
          /\ Len(results[1]) = Len(submissions)
          /\ \A i \in 1..Len(submissions) :
                /\ results[1][i].team_number = submissions[i].team_number
                /\ results[1][i] = results_map[submissions[i].team_number]
    /\ lpc \in {"pool", "done"} =>
          saves = (completed \div SaveEvery) + (IF lpc = "done" THEN 1 ELSE 0)
    /\ saves > 0 =>
          /\ \A j, k \in 1..Len(out_file[1]) :
                j < k => PositionOf(out_file[1][j].team_number)
                            < PositionOf(out_file[1][k].team_number)
          /\ \A k \in 1..Len(out_file[1]) :
                /\ out_file[1][k].team_number \in DOMAIN results_map
                /\ out_file[1][k]
                      = AsWritten(results_map[out_file[1][k].team_number])
          /\ \A t \in CarriedOver :
                \E k \in 1..Len(out_file[1]) :
                    out_file[1][k] = AsWritten(existing[t])
          /\ Len(out_file[1])
                = IF lpc = "done" THEN Len(submissions)
                  ELSE Cardinality(DOMAIN results_map) - (completed % SaveEvery)

\* the save after the 10th completion of a resumed video analysis: team 1
\* was carried over, the future of team 2 has not completed while those of
\* later teams have, and the file lists team 1 and the ten new results
C30_Witness ==
    /\ stage = "video_analysis"
    /\ resume
    /\ lpc = "pool"
    /\ CarriedOver = {1}
    /\ completed = SaveEvery
    /\ saves = 1
    /\ pending = {2}
    /\ Len(out_file[1]) = SaveEvery + 1
    /\ out_file[1][1] = AsWritten(existing[1])
    /\ out_file[1][2].team_number = 3

====
